---- MODULE Spec2Model ----
(***************************************************************************)
(* Model of the InfiniteTalk Runpod serverless worker: the handler         *)
(* run() of worker/handler.py, the per-item orchestration                  *)
(* _run_single_item(), the inference wrapper run_inference() of            *)
(* worker/pipeline.py and the input normalisation of worker/validator.py.  *)
(* normalize_and_validate() of worker/validator.py and download_from_url() *)
(* of worker/storage.py are also exercised on their own, each under its    *)
(* own specification, and so is the UI client of ui/runpod_client.py and   *)
(* ui/app.py: submit, the polling loop, the rendering of its result.       *)
(*                                                                         *)
(* A Python dict is a TLA+ function whose DOMAIN is the set of keys that   *)
(* are present.  An error message is the sequence of its words; substring  *)
(* search is containment of a contiguous run of words.  Checkpoint         *)
(* timestamps and timings (wall clock readings) are left out.  Creating a  *)
(* working directory under /tmp is taken to succeed.                       *)
(***************************************************************************)
EXTENDS Integers, Sequences, FiniteSets, TLC

\* Largest number of items in a submitted batch.
MaxBatch == 2

None == "None"

Get(d, k, dflt) == IF k \in DOMAIN d THEN d[k] ELSE dflt

\* Python truthiness of an optional string
Truthy(v) == v # None /\ v # ""

\* {**a, **b}: keys of b override keys of a
Merge(a, b) == [k \in (DOMAIN a) \cup (DOMAIN b) |-> IF k \in DOMAIN b THEN b[k] ELSE a[k]]

----------------------------------------------------------------------------
(* Messages and substring matching *)

Lower(w) ==
    CASE w = "FFmpeg" -> "ffmpeg"
      [] w = "Audio" -> "audio"
      [] w = "Embedding" -> "embedding"
      [] w = "Model" -> "model"
      [] w = "WAV2VEC_DIR" -> "wav2vec_dir"
      [] w = "CKPT_DIR" -> "ckpt_dir"
      [] w = "INFINITETALK_DIR" -> "infinitetalk_dir"
      [] w = "CUDA" -> "cuda"
      [] w = "Upload" -> "upload"
      [] w = "URL" -> "url"
      [] w = "Out" -> "out"
      [] OTHER -> w

\* str.lower()
LowerMsg(m) == [i \in 1..Len(m) |-> Lower(m[i])]

\* needle in msg
Contains(needle, m) ==
    \E s \in 0..(Len(m) - Len(needle)) :
        \A j \in 1..Len(needle) : m[s + j] = needle[j]

MsgWav2vec == <<"WAV2VEC_DIR", "env", "var", "is", "required", "for", "audio", "embedding">>
MsgModelPaths == <<"Model", "paths", "CKPT_DIR", "and", "INFINITETALK_DIR", "must", "be", "set">>
MsgTts == <<"tts_audio", "is", "not", "supported">>
MsgNoAudio == <<"cond_audio", "or", "tts_audio", "must", "be", "provided">>
MsgUpload == <<"Upload", "to", "presigned", "URL", "failed">>
MsgOutOfMemory == <<"Out", "of", "memory">>
MsgCudaOom == <<"CUDA", "out", "of", "memory">>
MsgFfmpeg == <<"FFmpeg", "exited", "with", "an", "error">>
MsgAudioEmb == <<"Audio", "Embedding", "failed">>
MsgPlain == <<"unexpected", "failure">>
MsgKeySize == <<"size">>
MsgInvalid == <<"Invalid", "input">>

----------------------------------------------------------------------------
(* Exceptions *)

\* Base class of each exception class that the worker can see.
\* torch.cuda.OutOfMemoryError and NotImplementedError derive from
\* RuntimeError; pydantic's ValidationError derives from ValueError.
ExcParent(c) ==
    CASE c = "OutOfMemoryError" -> "RuntimeError"
      [] c = "NotImplementedError" -> "RuntimeError"
      [] c = "RuntimeError" -> "Exception"
      [] c = "MemoryError" -> "Exception"
      [] c = "ValidationError" -> "ValueError"
      [] c = "ValueError" -> "Exception"
      [] c = "KeyError" -> "Exception"
      [] c = "ConnectionError" -> "Exception"
      [] c = "Exception" -> "BaseException"
      [] OTHER -> "BaseException"

RECURSIVE IsInstance(_, _)
IsInstance(c, base) ==
    IF c = base THEN TRUE
    ELSE IF c = "BaseException" THEN FALSE
    ELSE IsInstance(ExcParent(c), base)

Exc(c, m) == [cls |-> c, msg |-> m]

NoExc == Exc("-", <<>>)

\* variant: the mux failure is entered as not retryable
ERROR_RETRYABLE_FfmpegFinal ==
    [E_INPUT_VALIDATION |-> FALSE,
     E_DOWNLOAD_FAILED |-> TRUE,
     E_AUDIO_EMBEDDING |-> TRUE,
     E_PIPELINE_LOAD |-> FALSE,
     E_OOM |-> FALSE,
     E_FFMPEG |-> FALSE,
     E_GENERATION_RUNTIME |-> FALSE,
     E_UPLOAD |-> TRUE,
     E_TIMEOUT |-> TRUE]

ERROR_RETRYABLE ==
    [E_INPUT_VALIDATION |-> FALSE,
     E_DOWNLOAD_FAILED |-> TRUE,
     E_AUDIO_EMBEDDING |-> TRUE,
     E_PIPELINE_LOAD |-> FALSE,
     E_OOM |-> FALSE,
     E_FFMPEG |-> TRUE,
     E_GENERATION_RUNTIME |-> FALSE,
     E_UPLOAD |-> TRUE,
     E_TIMEOUT |-> TRUE]

build_error(code, message, retryable, at_stage, exc) ==
    [code |-> code,
     message |-> message,
     retryable |-> retryable,
     at_stage |-> at_stage,
     cause_class |-> exc.cls,
     cause_message |-> exc.msg]

_error_output(job_id, code, message, at_stage, exc, cps) ==
    [job_id |-> job_id,
     status |-> "error",
     error |-> build_error(code, message, Get(ERROR_RETRYABLE, code, FALSE), at_stage, exc),
     checkpoints |-> cps]

\* variant: the last clause, except Exception, is missing
ExceptClause_NoCatchAll(exc) ==
    IF IsInstance(exc.cls, "RuntimeError") THEN "RuntimeError"
    ELSE IF IsInstance(exc.cls, "MemoryError") THEN "MemoryError"
    ELSE "uncaught"

\* The except clause of _run_single_item that catches the exception
ExceptClause(exc) ==
    IF IsInstance(exc.cls, "RuntimeError") THEN "RuntimeError"
    ELSE IF IsInstance(exc.cls, "MemoryError") THEN "MemoryError"
    ELSE IF IsInstance(exc.cls, "Exception") THEN "Exception"
    ELSE "uncaught"

\* The Error envelope the except clauses of _run_single_item build
ItemError(job_id, exc, cps) ==
    CASE ExceptClause(exc) = "RuntimeError" ->
            _error_output(job_id,
                          IF Contains(<<"Model", "paths">>, exc.msg)
                          THEN "E_PIPELINE_LOAD" ELSE "E_GENERATION_RUNTIME",
                          exc.msg, "runtime", exc, cps)
      [] ExceptClause(exc) = "MemoryError" ->
            _error_output(job_id, "E_OOM", MsgOutOfMemory, "generation", exc, cps)
      [] OTHER ->
            _error_output(job_id,
                          IF Contains(<<"ffmpeg">>, LowerMsg(exc.msg)) THEN "E_FFMPEG"
                          ELSE IF Contains(<<"WAV2VEC_DIR">>, exc.msg)
                                  \/ Contains(<<"audio", "embedding">>, LowerMsg(exc.msg))
                               THEN "E_AUDIO_EMBEDDING"
                          ELSE "E_GENERATION_RUNTIME",
                          exc.msg, "generation", exc, cps)

----------------------------------------------------------------------------
(* Input schema and normalisation (worker/validator.py) *)

SIZE_ENUM == {"infinitetalk-480", "infinitetalk-720"}
AUDIO_MODE_ENUM == {"para", "add"}
STORE_ENUM == {"s3", "volume", "inline"}
QUANT_ENUM == {"int8", "fp8"}

\* a frame_num that only has to be of the form 4n+1, of either sign
validate_frame_num_4n_plus_1_AnySign(v) == (v - 1) % 4 = 0

validate_frame_num_4n_plus_1(v) == ~(v <= 0 \/ (v - 1) % 4 # 0)

\* Cross-field checks shared by SingleInput and BatchInput.  A key whose
\* value is None is a key that is absent.
\* a second speaker that needs no audio_type
two_speakers_rule_Off(p) == TRUE

\* "audio_type is required when two speakers are provided"
two_speakers_rule(p) ==
    ~(/\ "cond_audio" \in DOMAIN p
      /\ p["cond_audio"].person2 # None
      /\ "audio_type" \notin DOMAIN p)

\* a quant_dir that only has to be present, the empty string included
quant_dir_rule_NotNone(p) == ~("quant" \in DOMAIN p /\ Get(p, "quant_dir", None) = None)

\* "quant_dir must be provided when quant is set"
quant_dir_rule(p) == ~("quant" \in DOMAIN p /\ ~Truthy(Get(p, "quant_dir", None)))

validate_audio_refs(p) ==
    /\ ~("cond_audio" \notin DOMAIN p /\ "tts_audio" \notin DOMAIN p)
    /\ two_speakers_rule(p)
    /\ quant_dir_rule(p)

\* The field declarations that SingleInput and BatchInput have in common
FieldsValid(p) ==
    /\ "prompt" \in DOMAIN p
    /\ "cond_video" \in DOMAIN p
    /\ "tts_audio" \in DOMAIN p => Len(p["tts_audio"].text) >= 1
    /\ "audio_type" \in DOMAIN p => p["audio_type"] \in AUDIO_MODE_ENUM
    /\ "size" \in DOMAIN p => p["size"] \in SIZE_ENUM
    /\ "quant" \in DOMAIN p => p["quant"] \in QUANT_ENUM
    /\ "frame_num" \in DOMAIN p => validate_frame_num_4n_plus_1(p["frame_num"])

SingleInputValid(p) ==
    /\ FieldsValid(p)
    /\ Len(p["prompt"]) >= 1
    /\ "bbox" \in DOMAIN p => Len(p["bbox"]) = 4
    /\ "output_config" \in DOMAIN p =>
           Get(p["output_config"], "store", "s3") \in STORE_ENUM
    /\ validate_audio_refs(p)

BatchInputValid(p) ==
    /\ FieldsValid(p)
    /\ validate_audio_refs(p)

\* a merge that also fills the caller's output_config from the defaults' output
apply_defaults_to_single_Deep(single, defaults) ==
    LET merged == Merge(Get(defaults, "generation", <<>>), single)
    IN IF "output" \in DOMAIN defaults
       THEN Merge(merged, [output_config |->
                              Merge(defaults["output"], Get(merged, "output_config", <<>>))])
       ELSE merged

apply_defaults_to_single(single, defaults) ==
    LET merged == Merge(Get(defaults, "generation", <<>>), single)
    IN IF "output_config" \notin DOMAIN merged /\ "output" \in DOMAIN defaults
       THEN Merge(merged, [output_config |-> defaults["output"]])
       ELSE merged

\* EnvelopeInput.model_validate: the shape of the raw envelope
check_single_or_batch(envelope) ==
    /\ "input" \in DOMAIN envelope
    /\ LET payload == envelope["input"]
       IN IF "batch" \in DOMAIN payload
          THEN /\ payload["batch"].isList
               /\ Len(payload["batch"].items) # 0
               /\ \A i \in 1..Len(payload["batch"].items) :
                      BatchInputValid(payload["batch"].items[i])
          ELSE SingleInputValid(payload)

\* variant: the items of a batch are not validated, only the list shape is
Accepts_ShapeOnly(envelope, defaults) ==
    /\ "input" \in DOMAIN envelope
    /\ LET payload == envelope["input"]
       IN IF "batch" \in DOMAIN payload
          THEN payload["batch"].isList /\ Len(payload["batch"].items) # 0
          ELSE SingleInputValid(apply_defaults_to_single(payload, defaults))

\* normalize_and_validate returns (TRUE) or raises (FALSE)
Accepts(envelope, defaults) ==
    /\ check_single_or_batch(envelope)
    /\ LET payload == envelope["input"]
       IN IF "batch" \in DOMAIN payload
          THEN \A i \in 1..Len(payload["batch"].items) :
                   BatchInputValid(apply_defaults_to_single(payload["batch"].items[i], defaults))
          ELSE SingleInputValid(apply_defaults_to_single(payload, defaults))

\* a normalisation that hands back the envelope it was given
normalize_and_validate_Envelope(envelope, defaults) == envelope

\* The value normalize_and_validate returns for an envelope it accepts
normalize_and_validate(envelope, defaults) ==
    LET payload == envelope["input"]
    IN IF "batch" \in DOMAIN payload
       THEN LET items == payload["batch"].items
                res == [batch |-> [i \in 1..Len(items) |->
                                      apply_defaults_to_single(items[i], defaults)]]
            IN IF "output_config" \in DOMAIN payload
               THEN Merge(res, [output_config |-> payload["output_config"]])
               ELSE res
       ELSE apply_defaults_to_single(payload, defaults)

----------------------------------------------------------------------------
(* The jobs, environments and defaults documents the model runs *)

OneSpeaker == [person1 |-> "https://host/a.wav", person2 |-> None]

\* 480p, few steps, no upload destination
PayloadSmall ==
    [prompt |-> "talk", cond_video |-> "https://host/v.mp4", cond_audio |-> OneSpeaker,
     size |-> "infinitetalk-480", sample_steps |-> 4, frame_num |-> 81]

\* 720p with a presigned upload destination, a seed and an item id
PayloadLarge ==
    [id |-> "a", prompt |-> "talk", cond_video |-> "https://host/v.mp4",
     cond_audio |-> OneSpeaker, size |-> "infinitetalk-720", sample_steps |-> 40,
     base_seed |-> 7,
     output_config |-> [store |-> "s3", video_url |-> "https://bucket/put"]]

\* neither size nor sample_steps given by the caller
PayloadNoSize ==
    [prompt |-> "talk", cond_video |-> "https://host/v.mp4", cond_audio |-> OneSpeaker]

\* audio is text-to-speech
PayloadTts ==
    [id |-> "a", prompt |-> "talk", cond_video |-> "https://host/v.mp4",
     tts_audio |-> [text |-> "hello"], size |-> "infinitetalk-480"]

\* frame_num is not 4n+1
PayloadBadFrames ==
    [prompt |-> "talk", cond_video |-> "https://host/v.mp4", cond_audio |-> OneSpeaker,
     size |-> "infinitetalk-480", frame_num |-> 80]

Payloads == {PayloadSmall, PayloadLarge, PayloadNoSize, PayloadTts, PayloadBadFrames}

RECURSIVE SeqsUpTo(_, _)
SeqsUpTo(S, n) ==
    IF n = 0 THEN {<<>>}
    ELSE LET shorter == SeqsUpTo(S, n - 1)
         IN shorter \cup {Append(s, x) : s \in {t \in shorter : Len(t) = n - 1}, x \in S}

JobId == "job-1"

SingleJobs == {[id |-> JobId, input |-> p] : p \in Payloads}

\* every list of at most MaxBatch items, the empty list included
BatchJobs ==
    {[id |-> JobId, input |-> [batch |-> [isList |-> TRUE, items |-> b]]] :
        b \in SeqsUpTo(Payloads, MaxBatch)}

\* "batch" holds something that is not a list
NonListJob == [id |-> JobId, input |-> [batch |-> [isList |-> FALSE, items |-> <<>>]]]

\* a batch that carries a seed next to its items
SeededBatchJob ==
    [id |-> JobId,
     input |-> [batch |-> [isList |-> TRUE, items |-> <<PayloadSmall>>], base_seed |-> 7]]

\* a batch whose envelope names the upload destination of its items; the
\* second item names its own
OutputConfigBatchJob ==
    [id |-> JobId,
     input |-> [batch |-> [isList |-> TRUE, items |-> <<PayloadSmall, PayloadLarge>>],
                output_config |-> [store |-> "s3", video_url |-> "https://bucket/envelope"]]]

\* sample_steps below 1
PayloadZeroSteps == Merge(PayloadSmall, [sample_steps |-> 0])

\* color_correction_strength 1.5; the strength is held in tenths
PayloadStrongColor == Merge(PayloadSmall, [color_correction_strength |-> 15])

\* a single job and a batch whose generation parameters are out of range
OutOfRangeJobs ==
    {[id |-> JobId, input |-> PayloadZeroSteps],
     [id |-> JobId, input |-> [batch |-> [isList |-> TRUE, items |-> <<PayloadStrongColor>>]]]}

Environments ==
    {[CKPT_DIR |-> c, INFINITETALK_DIR |-> c, WAV2VEC_DIR |-> w] :
        c \in {None, "/models/ckpt"}, w \in {None, "/models/wav2vec"}}

DefaultsDocs ==
    {[version |-> "1"],
     [version |-> "1",
      generation |-> [size |-> "infinitetalk-720"],
      output |-> [store |-> "volume"]],
     [version |-> "1",
      output |-> [store |-> "inline"]]}

----------------------------------------------------------------------------
(* Failures the collaborators can raise *)

\* requests / urllib failures of download_from_url
DownloadFailures == {Exc("ConnectionError", MsgPlain)}

\* wan_i2v.generate_infinitetalk
GenerationFailures ==
    {Exc("OutOfMemoryError", MsgCudaOom),
     Exc("MemoryError", MsgPlain),
     Exc("RuntimeError", MsgPlain),
     Exc("ValueError", MsgFfmpeg),
     Exc("ValueError", MsgAudioEmb)}

\* save_video_ffmpeg
MuxFailures == {Exc("RuntimeError", MsgFfmpeg)}

\* HTTP status codes of the presigned PUT
UploadStatuses == {200, 500}

----------------------------------------------------------------------------
(* State *)

VARIABLES
    job,          \* the job handed to run()
    env,          \* os.environ: the model paths
    defaults,     \* the document load_defaults() returns
    pc,           \* the position of run() / _run_single_item() / run_inference()
    normalized,   \* run(): normalized
    idx,          \* run(): idx of the batch loop, -1 for a single job
    checkpoints,  \* _run_single_item(): checkpoints
    out_items,    \* run(): out_items
    trace,        \* log lines written and collaborator calls made, in order
    result,       \* the value run() returned
    raised,       \* the exception that left run(), if any
    validation,   \* normalize_and_validate() called on its own: argument, position, return values
    download,     \* download_from_url() called on its own: arguments, position, attempts, outcome
    poll          \* the UI client: submit, the polling loop, the remote job it observes

\* the state of the two functions exercised on their own, untouched by run()
standalone == <<validation, download, poll>>

vars == <<job, env, defaults, pc, normalized, idx, checkpoints, out_items, trace, result, raised,
          validation, download, poll>>

Pending == [status |-> "pending"]

\* a function that is not being exercised
Idle == [pc |-> "idle"]

\* a log line: its level, event, the item it belongs to and the percent it carries
LogEv(level, event, item, pct) ==
    [kind |-> "log", level |-> level, name |-> event, item |-> item, num |-> pct,
     size |-> "-", out |-> "-"]

\* a call of a collaborator: out is "ok" or the class of the exception it raised
CallEv(op, item, num, size, out) ==
    [kind |-> "call", level |-> "-", name |-> op, item |-> item, num |-> num,
     size |-> size, out |-> out]

Outcome(exc) == IF exc.cls = "-" THEN "ok" ELSE exc.cls

IsBatch == "batch" \in DOMAIN normalized

\* the params argument of _run_single_item
Params == IF IsBatch THEN normalized["batch"][idx + 1] ELSE normalized

\* item.get("id") or f"item-{idx}"
ItemId(item, i) ==
    IF Truthy(Get(item, "id", None)) THEN item["id"] ELSE "item-" \o ToString(i)

\* a cp that puts the newest checkpoint first
cp_Prepend(state, name, pct) ==
    [cps |-> <<name>> \o state.cps,
     tr |-> Append(state.tr, LogEv("INFO", name, idx, pct))]

\* cp(name, pct): append the checkpoint, emit the progress line
cp(state, name, pct) ==
    [cps |-> Append(state.cps, name),
     tr |-> Append(state.tr, LogEv("INFO", name, idx, pct))]

Init ==
    /\ \/ job \in SingleJobs
       \/ job \in BatchJobs
       \/ job = NonListJob
       \/ job = SeededBatchJob
       \/ job = OutputConfigBatchJob
       \/ job \in OutOfRangeJobs
    /\ env \in Environments
    /\ defaults \in DefaultsDocs
    /\ pc = "received"
    /\ normalized = <<>>
    /\ idx = -1
    /\ checkpoints = <<>>
    /\ out_items = <<>>
    /\ trace = <<>>
    /\ result = Pending
    /\ raised = NoExc
    /\ validation = Idle
    /\ download = Idle
    /\ poll = Idle

----------------------------------------------------------------------------
(* run(): lines 250-278 *)

RunBegin ==
    /\ pc = "received"
    /\ LET tr0 == Append(trace, LogEv("INFO", "received", -1, -1))
       IN IF ~Accepts(job, defaults)
          THEN /\ result' = _error_output(job["id"], "E_INPUT_VALIDATION", MsgInvalid,
                                          "validate", Exc("ValidationError", MsgInvalid), <<>>)
               /\ trace' = Append(tr0, LogEv("ERROR", "error", -1, -1))
               /\ pc' = "done"
               /\ UNCHANGED <<normalized, idx>>
          ELSE LET norm == normalize_and_validate(job, defaults)
               IN /\ normalized' = norm
                  /\ trace' = IF "base_seed" \in DOMAIN norm /\ norm["base_seed"] >= 0
                              THEN Append(tr0, CallEv("seed", -1, norm["base_seed"], "-", "ok"))
                              ELSE tr0
                  /\ idx' = IF "batch" \in DOMAIN norm THEN 0 ELSE -1
                  /\ pc' = "item"
                  /\ UNCHANGED result
    /\ UNCHANGED <<standalone, job, env, defaults, checkpoints, out_items, raised>>

\* variant: any() in place of all()
BatchStatus_Any(items) ==
    IF \E i \in 1..Len(items) : items[i].result.status = "success"
    THEN "success" ELSE "partial"

\* The batch status of run(), line 293
BatchStatus(items) ==
    IF \A i \in 1..Len(items) : items[i].result.status = "success"
    THEN "success" ELSE "partial"

\* variant: the batch loop stops at the first item that ends in error
Return_StopOnError(res, cps, tr) ==
    /\ trace' = tr
    /\ checkpoints' = cps
    /\ UNCHANGED <<standalone, job, env, defaults, normalized, raised>>
    /\ IF IsBatch
       THEN LET items == Append(out_items, [id |-> ItemId(Params, idx), result |-> res])
            IN /\ out_items' = items
               /\ IF idx + 1 < Len(normalized["batch"]) /\ res.status = "success"
                  THEN /\ idx' = idx + 1
                       /\ pc' = "item"
                       /\ UNCHANGED result
                  ELSE /\ result' = [job_id |-> job["id"],
                                     status |-> BatchStatus(items),
                                     items |-> items]
                       /\ pc' = "done"
                       /\ UNCHANGED idx
       ELSE /\ result' = res
            /\ pc' = "done"
            /\ UNCHANGED <<idx, out_items>>

\* _run_single_item returns res to run(): lines 288-299
Return(res, cps, tr) ==
    /\ trace' = tr
    /\ checkpoints' = cps
    /\ UNCHANGED <<standalone, job, env, defaults, normalized, raised>>
    /\ IF IsBatch
       THEN LET items == Append(out_items, [id |-> ItemId(Params, idx), result |-> res])
            IN /\ out_items' = items
               /\ IF idx + 1 < Len(normalized["batch"])
                  THEN /\ idx' = idx + 1
                       /\ pc' = "item"
                       /\ UNCHANGED result
                  ELSE /\ result' = [job_id |-> job["id"],
                                     status |-> BatchStatus(items),
                                     items |-> items]
                       /\ pc' = "done"
                       /\ UNCHANGED idx
       ELSE /\ result' = res
            /\ pc' = "done"
            /\ UNCHANGED <<idx, out_items>>

\* An exception leaves the try block of _run_single_item: lines 227-242
Raise(exc, cps, tr) ==
    IF ExceptClause(exc) = "uncaught"
    THEN /\ raised' = exc
         /\ pc' = "done"
         /\ trace' = tr
         /\ checkpoints' = cps
         /\ UNCHANGED <<standalone, job, env, defaults, normalized, idx, out_items, result>>
    ELSE Return(ItemError(job["id"], exc, cps), cps, tr)

\* An exception leaves the block of timeit_stage("generation")
StageError(tr) == Append(tr, LogEv("ERROR", "stage_error", idx, -1))

----------------------------------------------------------------------------
(* _run_single_item(): lines 182-204 *)

ItemStart ==
    /\ pc = "item"
    /\ LET s1 == cp([cps |-> <<>>, tr |-> trace], "validated", 2)
           s2 == cp([s1 EXCEPT !.tr = Append(@, LogEv("INFO", "models_loading", idx, -1))],
                    "models_loading", 15)
           s3 == cp([s2 EXCEPT !.tr = Append(@, LogEv("INFO", "models_loading_ok", idx, -1))],
                    "models_ready", 18)
           s4 == cp(s3, "preprocessing_done", 19)
           s5 == cp(s4, "generation_start", 20)
       IN /\ checkpoints' = s5.cps
          /\ trace' = Append(s5.tr, LogEv("INFO", "generation", idx, -1))
    /\ pc' = "prepare"
    /\ UNCHANGED <<standalone, job, env, defaults, normalized, idx, out_items, result, raised>>

(* run_inference(): _prepare_inputs, pipeline.py lines 53-139 *)

\* the fetches _prepare_inputs makes when nothing fails
FetchCount(params) ==
    IF "cond_audio" \in DOMAIN params /\ Truthy(params["cond_audio"].person1)
    THEN IF params["cond_audio"].person2 # None THEN 3 ELSE 2
    ELSE 1

\* n calls of download_from_url, the last of them with outcome last
FetchCalls(tr, n, last) ==
    tr \o [k \in 1..n |-> CallEv("fetch", idx, k, "-", IF k = n THEN last ELSE "ok")]

PrepareInputs ==
    /\ pc = "prepare"
    /\ \E failAt \in 0..FetchCount(Params), f \in DownloadFailures :
          IF failAt = 1
          THEN Raise(f, checkpoints, StageError(FetchCalls(trace, 1, f.cls)))
          ELSE IF ~Truthy(env.WAV2VEC_DIR)
          THEN Raise(Exc("RuntimeError", MsgWav2vec), checkpoints,
                     StageError(FetchCalls(trace, 1, "ok")))
          ELSE IF "cond_audio" \in DOMAIN Params /\ Truthy(Params["cond_audio"].person1)
          THEN IF failAt # 0
               THEN Raise(f, checkpoints, StageError(FetchCalls(trace, failAt, f.cls)))
               ELSE /\ trace' = FetchCalls(trace, FetchCount(Params), "ok")
                    /\ pc' = "build"
                    /\ UNCHANGED <<standalone, job, env, defaults, normalized, idx, checkpoints,
                                   out_items, result, raised>>
          ELSE IF "tts_audio" \in DOMAIN Params /\ Params["tts_audio"].text # ""
          THEN Raise(Exc("NotImplementedError", MsgTts), checkpoints,
                     StageError(FetchCalls(trace, 1, "ok")))
          ELSE Raise(Exc("ValueError", MsgNoAudio), checkpoints,
                     StageError(FetchCalls(trace, 1, "ok")))

(* run_inference(): _build_pipeline, pipeline.py lines 142-174 *)

ModelPathsSet == Truthy(env.CKPT_DIR) /\ Truthy(env.INFINITETALK_DIR)

BuildPipeline ==
    /\ pc = "build"
    /\ IF ~ModelPathsSet
       THEN Raise(Exc("RuntimeError", MsgModelPaths), checkpoints, StageError(trace))
       ELSE /\ trace' = Append(trace, CallEv("build", idx, 0, "-", "ok"))
            /\ pc' = "generate"
            /\ UNCHANGED <<standalone, job, env, defaults, normalized, idx, checkpoints,
                           out_items, result, raised>>

(* run_inference(): _run_generate and the out-of-memory retry, lines 177-242 *)

Min(a, b) == IF a < b THEN a ELSE b

\* variant: the retry lowers the size but keeps the sampling steps
Reduce_NoCap(params) ==
    Merge(params, [size |-> "infinitetalk-480"])

\* the reduced parameters of the retry, lines 237-239
Reduce(params) ==
    Merge(params, [size |-> "infinitetalk-480",
                   sample_steps |-> Min(8, Get(params, "sample_steps", 40))])

\* the call of generate_infinitetalk with its sampling_steps and size_buckget
GenerateCall(params, o) ==
    CallEv("generate", idx, Get(params, "sample_steps", 40), params["size"], Outcome(o))

\* variant: the retry is not announced
RetryLog_Silent(tr) == tr

\* logger.warn("oom_retry", ...), line 240
RetryLog(tr) == Append(tr, LogEv("WARN", "oom_retry", idx, -1))

\* the except clause of run_inference, line 235
IsCudaOom(exc) == IsInstance(exc.cls, "OutOfMemoryError")

Generate ==
    /\ pc = "generate"
    /\ IF "size" \notin DOMAIN Params
       THEN Raise(Exc("KeyError", MsgKeySize), checkpoints, StageError(trace))
       ELSE \E o \in GenerationFailures \cup {NoExc} :
               LET tr == Append(trace, GenerateCall(Params, o))
               IN IF o = NoExc
                  THEN /\ trace' = tr
                       /\ pc' = "save"
                       /\ UNCHANGED <<standalone, job, env, defaults, normalized, idx, checkpoints,
                                      out_items, result, raised>>
                  ELSE IF IsCudaOom(o)
                  THEN /\ trace' = tr
                       /\ pc' = "oom_retry"
                       /\ UNCHANGED <<standalone, job, env, defaults, normalized, idx, checkpoints,
                                      out_items, result, raised>>
                  ELSE Raise(o, checkpoints, StageError(tr))

OomRetry ==
    /\ pc = "oom_retry"
    /\ LET reduce == Reduce(Params)
           tr1 == RetryLog(trace)
       IN IF ~ModelPathsSet
          THEN Raise(Exc("RuntimeError", MsgModelPaths), checkpoints, StageError(tr1))
          ELSE \E o \in GenerationFailures \cup {NoExc} :
                  LET tr2 == Append(Append(tr1, CallEv("build", idx, 0, "-", "ok")),
                                    GenerateCall(reduce, o))
                  IN IF o = NoExc
                     THEN /\ trace' = tr2
                          /\ pc' = "save"
                          /\ UNCHANGED <<standalone, job, env, defaults, normalized, idx, checkpoints,
                                         out_items, result, raised>>
                     ELSE Raise(o, checkpoints, StageError(tr2))

(* run_inference(): save_video_ffmpeg, pipeline.py lines 243-263 *)

SaveVideo ==
    /\ pc = "save"
    /\ \E o \in MuxFailures \cup {NoExc} :
          LET tr == Append(trace, CallEv("save_video", idx, 0, "-", Outcome(o)))
          IN IF o = NoExc
             THEN /\ trace' = Append(tr, LogEv("INFO", "generation_ok", idx, -1))
                  /\ pc' = "deliver"
                  /\ UNCHANGED <<standalone, job, env, defaults, normalized, idx, checkpoints,
                                 out_items, result, raised>>
             ELSE Raise(o, checkpoints, StageError(tr))

(* _run_single_item(): lines 209-225, _upload_artifacts_if_any: lines 102-137 *)

VideoPath == "/tmp/job/infitalk.mp4"

\* a record that also offers the local path as its url
make_artifact_PathAsUrl(type, path, url, mime) ==
    Merge([type |-> type, mime |-> mime, bytes |-> 1024],
          IF Truthy(path) THEN [path |-> path, url |-> path] ELSE [url |-> url])

make_artifact(type, path, url, mime) ==
    Merge(Merge([type |-> type],
                IF Truthy(url) THEN [url |-> url] ELSE <<>>),
          Merge(IF Truthy(path) THEN [path |-> path] ELSE <<>>,
                [mime |-> mime, bytes |-> 1024]))

\* Artifact.model_validate(a).model_dump(): the declared fields only
ArtifactDump(a) ==
    [k \in {"type", "url", "path", "mime", "bytes"} |-> Get(a, k, None)]

\* the parameters a Success envelope echoes; a key that is None is left out
EchoParams(params) ==
    [k \in {"size", "frame_num", "sample_steps", "base_seed"} \cap DOMAIN params |-> params[k]]

_success_output(job_id, params, video_summary, artifacts, warnings, cps) ==
    [job_id |-> job_id,
     status |-> "success",
     video |-> video_summary,
     params |-> EchoParams(params),
     artifacts |-> [i \in 1..Len(artifacts) |-> ArtifactDump(artifacts[i])],
     warnings |-> warnings,
     checkpoints |-> cps]

WarnInline == "Returning inline base64 video. This is not recommended for large outputs."
WarnLocal == "No presigned URL provided; returning local path. Configure S3 uploads for production."

\* an upload whose status is never looked at
UploadRejected_Never(status) == FALSE

\* status // 100 != 2
UploadRejected(status) == status \div 100 # 2

Deliver ==
    /\ pc = "deliver"
    /\ LET s1 == cp([cps |-> checkpoints, tr |-> trace], "postprocess_mux", 90)
           s2 == cp(s1, "uploading_artifacts", 92)
           out_cfg == Get(Params, "output_config", <<>>)
           store == Get(out_cfg, "store", "s3")
       IN IF "video_url" \in DOMAIN out_cfg
          THEN \E status \in UploadStatuses :
                  LET tr == Append(s2.tr, CallEv("upload", idx, status, "-", "ok"))
                      vurl == out_cfg["video_url"]
                  IN IF UploadRejected(status)
                     THEN Raise(Exc("RuntimeError", MsgUpload), s2.cps, tr)
                     ELSE LET s3 == cp([cps |-> s2.cps, tr |-> tr], "completed", 100)
                          IN Return(_success_output(job["id"], Params,
                                        [url |-> vurl, mime |-> "video/mp4"],
                                        <<make_artifact("video", None, vurl, "video/mp4")>>,
                                        <<>>, s3.cps),
                                    s3.cps, s3.tr)
          ELSE LET s3 == cp(s2, "completed", 100)
                   art == make_artifact("video", VideoPath, None, "video/mp4")
               IN Return(_success_output(job["id"], Params,
                             [url |-> None, mime |-> "video/mp4"],
                             <<IF store = "inline" THEN Merge(art, [base64 |-> "AAAA"]) ELSE art>>,
                             <<IF store = "inline" THEN WarnInline ELSE WarnLocal>>,
                             s3.cps),
                         s3.cps, s3.tr)

----------------------------------------------------------------------------

Next ==
    \/ RunBegin
    \/ ItemStart
    \/ PrepareInputs
    \/ BuildPipeline
    \/ Generate
    \/ OomRetry
    \/ SaveVideo
    \/ Deliver

Spec == Init /\ [][Next]_vars

----------------------------------------------------------------------------
(* Observations used by the properties *)

Accepted == DOMAIN normalized # {}

\* the items of the job: 0 .. N-1 for a batch, -1 for a single job
ItemIndexes ==
    IF ~Accepted THEN {}
    ELSE IF IsBatch THEN 0..(Len(normalized["batch"]) - 1) ELSE {-1}

ParamsOf(i) == IF IsBatch THEN normalized["batch"][i + 1] ELSE normalized

\* _run_single_item has returned for item i
Finished(i) ==
    IF IsBatch THEN i + 1 <= Len(out_items)
    ELSE pc = "done" /\ result.status # "pending"

ResultOf(i) == IF IsBatch THEN out_items[i + 1].result ELSE result

EventsOf(i) == SelectSeq(trace, LAMBDA e : e.item = i)

CallsOf(i, op) == SelectSeq(trace, LAMBDA e : e.item = i /\ e.kind = "call" /\ e.name = op)

LogsOf(i, event) == SelectSeq(trace, LAMBDA e : e.item = i /\ e.kind = "log" /\ e.name = event)

\* an exception left run_inference for item i
InferenceFailed(i) == Len(LogsOf(i, "stage_error")) > 0

\* the presigned PUT of item i answered with a status that is not 2xx
UploadFailed(i) == \E k \in 1..Len(CallsOf(i, "upload")) : CallsOf(i, "upload")[k].num \div 100 # 2

\* every Error envelope produced so far
ErrorEnvelopes ==
    {ResultOf(i) : i \in {j \in ItemIndexes : Finished(j) /\ ResultOf(j).status = "error"}}
    \cup (IF pc = "done" /\ result.status = "error" THEN {result} ELSE {})

----------------------------------------------------------------------------
(* Properties *)

TenStages ==
    <<"received", "validated", "models_loading", "models_ready", "preprocessing_done",
      "generation_start", "generation_done", "postprocess_mux", "uploading_artifacts",
      "completed">>

\* the percents of the progress lines of item i, in the order they were emitted
ProgressOf(i) ==
    LET lines == SelectSeq(trace, LAMBDA e : e.item = i /\ e.kind = "log" /\ e.num >= 0)
    IN [k \in 1..Len(lines) |-> lines[k].num]

NonDecreasing(q) == \A k \in 1..(Len(q) - 1) : q[k] <= q[k + 1]

\* C1: the checkpoints of the Success envelope of a single job are exactly the
\* ten stage names received .. completed in order, with non-decreasing
\* progress percents that end at 100.
C1_TenCheckpoints ==
    (pc = "done" /\ Accepted /\ ~IsBatch /\ result.status = "success") =>
        /\ result.checkpoints = TenStages
        /\ NonDecreasing(ProgressOf(-1))
        /\ ProgressOf(-1)[Len(ProgressOf(-1))] = 100

\* the item ended in error because its generation call raised something that
\* is not an out-of-memory condition
GenerationRaisedNonOom(i) ==
    LET g == CallsOf(i, "generate")
    IN /\ Len(g) > 0
       /\ g[Len(g)].out \notin {"ok", "OutOfMemoryError", "MemoryError"}

\* no collaborator failure reached the handler while item i ran
Clean(i) == ~InferenceFailed(i) /\ ~UploadFailed(i)

\* C2: the status of a batch result is "success" iff every item result is
\* "success", and "partial" otherwise; when exactly one item's generation call
\* raises a non-OOM exception (and nothing else fails) the other items are
\* "success" and that item is "error" with E_GENERATION_RUNTIME or a more
\* specific code.
C2_BatchStatus ==
    (pc = "done" /\ Accepted /\ IsBatch) =>
        /\ result.status \in {"success", "partial"}
        /\ (result.status = "success") <=>
               (\A k \in 1..Len(result.items) : result.items[k].result.status = "success")
        /\ \A i \in ItemIndexes :
               (GenerationRaisedNonOom(i) /\ \A j \in ItemIndexes \ {i} : Clean(j)) =>
                   /\ result.status = "partial"
                   /\ ResultOf(i).status = "error"
                   /\ ResultOf(i).error.code \in
                          {"E_GENERATION_RUNTIME", "E_FFMPEG", "E_AUDIO_EMBEDDING"}
                   /\ \A j \in ItemIndexes \ {i} : ResultOf(j).status = "success"

C2_Witness ==
    /\ pc = "done" /\ Accepted /\ IsBatch
    /\ Len(result.items) = 2
    /\ GenerationRaisedNonOom(0)
    /\ Clean(1)
    /\ result.status = "partial"

\* C3: when the first generation call raises out-of-memory and the reduced
\* retry succeeds (mux and delivery raising nothing), the item's result is a
\* Success envelope without an error, and a WARN oom_retry line is written
\* between the first generation call and the retry's generation call.
C3_OomRetrySucceeds ==
    \A i \in ItemIndexes :
        LET g == CallsOf(i, "generate")
            ev == EventsOf(i)
        IN /\ \A a, c \in 1..Len(ev) :
                  (a < c /\ ev[a].kind = "call" /\ ev[a].name = "generate"
                         /\ ev[c].kind = "call" /\ ev[c].name = "generate") =>
                      \E b \in (a + 1)..(c - 1) :
                          ev[b].kind = "log" /\ ev[b].level = "WARN" /\ ev[b].name = "oom_retry"
           /\ (/\ Finished(i)
               /\ Len(g) = 2 /\ g[1].out = "OutOfMemoryError" /\ g[2].out = "ok"
               /\ Clean(i)) =>
                  /\ ResultOf(i).status = "success"
                  /\ "error" \notin DOMAIN ResultOf(i)

C3_Witness ==
    \E i \in ItemIndexes :
        /\ Finished(i)
        /\ Len(CallsOf(i, "generate")) = 2
        /\ CallsOf(i, "generate")[1].out = "OutOfMemoryError"
        /\ CallsOf(i, "generate")[2].out = "ok"
        /\ ResultOf(i).status = "success"
        /\ Len(LogsOf(i, "oom_retry")) = 1

\* C4: when the generation call raises out-of-memory on the first attempt and
\* again on the reduced retry, the item's result is an Error envelope with
\* code E_OOM and retryable = false.
C4_SecondOomIsEOom ==
    \A i \in ItemIndexes :
        LET g == CallsOf(i, "generate")
        IN (/\ Finished(i)
            /\ Len(g) = 2 /\ g[1].out = "OutOfMemoryError" /\ g[2].out = "OutOfMemoryError") =>
               /\ ResultOf(i).status = "error"
               /\ ResultOf(i).error.code = "E_OOM"
               /\ ResultOf(i).error.retryable = FALSE

\* C5: the generation collaborator is called at most twice per item; a second
\* call follows only an out-of-memory failure of the first and runs with size
\* infinitetalk-480 and sample_steps = min(8, original sample_steps); no call
\* follows any other failure or a failure of the retry.
C5_AtMostOneRetry ==
    \A i \in ItemIndexes :
        LET g == CallsOf(i, "generate")
            orig == IF "sample_steps" \in DOMAIN ParamsOf(i)
                    THEN ParamsOf(i)["sample_steps"] ELSE 40
        IN /\ Len(g) <= 2
           /\ Len(g) >= 1 =>
                  /\ g[1].size = ParamsOf(i)["size"]
                  /\ g[1].num = orig
           /\ Len(g) = 2 =>
                  /\ g[1].out = "OutOfMemoryError"
                  /\ g[2].size = "infinitetalk-480"
                  /\ g[2].num = (IF orig < 8 THEN orig ELSE 8)

C5_Witness ==
    \E i \in ItemIndexes :
        /\ Len(CallsOf(i, "generate")) = 2
        /\ CallsOf(i, "generate")[1].size = "infinitetalk-720"
        /\ CallsOf(i, "generate")[1].num = 40
        /\ CallsOf(i, "generate")[2].num = 8

\* the envelope is one that validation has to reject
JobHasInvalidItem ==
    /\ "batch" \in DOMAIN job["input"]
    /\ \E k \in 1..Len(job["input"]["batch"].items) :
           Get(job["input"]["batch"].items[k], "frame_num", 81) = 80

JobMalformedBatch ==
    /\ "batch" \in DOMAIN job["input"]
    /\ (~job["input"]["batch"].isList \/ Len(job["input"]["batch"].items) = 0)

JobInvalidSingle ==
    /\ "batch" \notin DOMAIN job["input"]
    /\ Get(job["input"], "frame_num", 81) = 80

Rejected ==
    JobHasInvalidItem \/ JobMalformedBatch \/ JobInvalidSingle \/ ~Accepts(job, defaults)

\* C6: when normalize_and_validate rejects the envelope (invalid single
\* payload, empty or non-list batch, batch with an invalid item) run returns an
\* Error envelope with E_INPUT_VALIDATION, retryable = false, at_stage =
\* validate and no checkpoints, and no item runs: no fetch, no generation call,
\* no upload, no checkpoint.
C6_RejectedRunsNothing ==
    Rejected =>
        /\ pc \in {"received", "done"}
        /\ \A k \in 1..Len(trace) : trace[k].kind # "call" /\ trace[k].item = -1
        /\ checkpoints = <<>>
        /\ out_items = <<>>
        /\ pc = "done" =>
               /\ result.status = "error"
               /\ result.error.code = "E_INPUT_VALIDATION"
               /\ result.error.retryable = FALSE
               /\ result.error.at_stage = "validate"
               /\ result.checkpoints = <<>>

C6_Witness ==
    /\ pc = "done"
    /\ JobHasInvalidItem
    /\ Len(job["input"]["batch"].items) = 2
    /\ Get(job["input"]["batch"].items[1], "frame_num", 81) = 81
    /\ result.status = "error"

\* C7: a failure raised while fetching inputs, building the pipeline,
\* generating, muxing or uploading gives that job/item a structured Error
\* envelope (status error with ErrorDetails); no exception leaves run().
C7_FailuresBecomeEnvelopes ==
    /\ raised = NoExc
    /\ pc = "done" => result.status # "pending"
    /\ \A i \in ItemIndexes :
           (Finished(i) /\ ~Clean(i)) =>
               /\ ResultOf(i).status = "error"
               /\ "error" \in DOMAIN ResultOf(i)
               /\ DOMAIN ResultOf(i).error =
                      {"code", "message", "retryable", "at_stage", "cause_class", "cause_message"}

C7_Witness ==
    /\ pc = "done"
    /\ \E i \in ItemIndexes :
           /\ UploadFailed(i)
           /\ ResultOf(i).status = "error"
    /\ \E i \in ItemIndexes :
           /\ Len(CallsOf(i, "fetch")) > 0
           /\ CallsOf(i, "fetch")[Len(CallsOf(i, "fetch"))].out = "ConnectionError"
           /\ ResultOf(i).status = "error"

\* the code the message-based classification gives; a missing-model-paths
\* message is allowed its own code E_PIPELINE_LOAD
ClassifiedByMessage(cls, msg) ==
    IF cls \in {"OutOfMemoryError", "MemoryError"}
          \/ Contains(<<"out", "of", "memory">>, LowerMsg(msg))
    THEN "E_OOM"
    ELSE IF Contains(<<"ffmpeg">>, LowerMsg(msg)) THEN "E_FFMPEG"
    ELSE IF Contains(<<"WAV2VEC_DIR">>, msg) \/ Contains(<<"audio", "embedding">>, LowerMsg(msg))
    THEN "E_AUDIO_EMBEDDING"
    ELSE IF Contains(<<"Model", "paths">>, msg) THEN "E_PIPELINE_LOAD"
    ELSE "E_GENERATION_RUNTIME"

\* C8: every exception that surfaces from the generation collaborator is
\* classified by its message whatever its class: out-of-memory gives E_OOM, a
\* message mentioning ffmpeg gives E_FFMPEG, a message about WAV2VEC_DIR /
\* audio embedding gives E_AUDIO_EMBEDDING, anything else E_GENERATION_RUNTIME.
C8_ClassifiedByMessage ==
    \A i \in ItemIndexes :
        (Finished(i) /\ InferenceFailed(i)) =>
            ResultOf(i).error.code =
                ClassifiedByMessage(ResultOf(i).error.cause_class,
                                    ResultOf(i).error.cause_message)

Taxonomy ==
    {"E_INPUT_VALIDATION", "E_DOWNLOAD_FAILED", "E_AUDIO_EMBEDDING", "E_PIPELINE_LOAD",
     "E_OOM", "E_FFMPEG", "E_GENERATION_RUNTIME", "E_UPLOAD", "E_TIMEOUT"}

RetryableCodes == {"E_DOWNLOAD_FAILED", "E_AUDIO_EMBEDDING", "E_FFMPEG", "E_UPLOAD", "E_TIMEOUT"}

\* C9: in every Error envelope error.code is one of the nine taxonomy codes
\* and error.retryable is true exactly for DOWNLOAD_FAILED, AUDIO_EMBEDDING,
\* FFMPEG, UPLOAD and TIMEOUT.
C9_RetryableFromTable ==
    \A e \in ErrorEnvelopes :
        /\ e.error.code \in Taxonomy
        /\ e.error.retryable = (e.error.code \in RetryableCodes)

C9_Witness ==
    /\ \E e \in ErrorEnvelopes : e.error.code = "E_FFMPEG" /\ e.error.retryable = TRUE
    /\ \E e \in ErrorEnvelopes : e.error.code = "E_GENERATION_RUNTIME" /\ e.error.retryable = FALSE

\* C10: every item of a valid batch is run whatever happened to the items
\* before it, and the batch result has exactly N entries in input order, each
\* holding the item's own result under its id.
C10_EveryItemRuns ==
    (pc = "done" /\ Accepted /\ IsBatch) =>
        LET items == job["input"]["batch"].items
            started == SelectSeq(trace, LAMBDA e : e.kind = "log" /\ e.name = "validated")
        IN /\ Len(result.items) = Len(items)
           /\ Len(started) = Len(items)
           /\ \A k \in 1..Len(items) :
                  /\ started[k].item = k - 1
                  /\ k <= Len(result.items) =>
                         /\ result.items[k].id =
                                (IF "id" \in DOMAIN items[k] THEN items[k]["id"]
                                 ELSE "item-" \o ToString(k - 1))
                         /\ result.items[k].result.checkpoints[1] = "validated"
                         /\ result.items[k].result.status = "success" =>
                                /\ Clean(k - 1)
                                /\ result.items[k].result.params["size"] =
                                       normalized["batch"][k]["size"]
                         /\ result.items[k].result.status = "error" => ~Clean(k - 1)

C10_Witness ==
    /\ pc = "done" /\ Accepted /\ IsBatch
    /\ Len(result.items) = 2
    /\ result.items[1].result.status = "error"
    /\ result.items[2].result.status = "success"
    /\ result.items[1].id = "item-0"
    /\ result.items[2].id = "a"

----------------------------------------------------------------------------
(* Checkpoint lists *)

IsPrefix(a, b) == Len(a) <= Len(b) /\ SubSeq(b, 1, Len(a)) = a

\* the position of a stage name in the fixed stage list
StageIndex(name) == CHOOSE k \in 1..Len(TenStages) : TenStages[k] = name

\* names of the stage list, none twice, in the order of the stage list
InStageOrder(cps) ==
    /\ \A k \in 1..Len(cps) : \E j \in 1..Len(TenStages) : TenStages[j] = cps[k]
    /\ \A k \in 1..(Len(cps) - 1) : StageIndex(cps[k]) < StageIndex(cps[k + 1])

\* every checkpoint list there is: the one being built and those in envelopes
C11_Ordered ==
    /\ InStageOrder(checkpoints)
    /\ \A i \in ItemIndexes :
           /\ NonDecreasing(ProgressOf(i))
           /\ Finished(i) => /\ ResultOf(i).status \in {"success", "error"}
                             /\ InStageOrder(ResultOf(i).checkpoints)

\* a step other than the start of the next item extends the list being built,
\* and what an item returned is the list as it was built, kept as returned
C11_Grows ==
    /\ pc # "item" => IsPrefix(checkpoints, checkpoints')
    /\ IsPrefix(out_items, out_items')
    /\ (pc # "done" /\ pc' = "done" /\ DOMAIN normalized' # {}
            /\ "batch" \notin DOMAIN normalized' /\ raised'.cls = "-") =>
           result'.checkpoints = checkpoints'
    /\ Len(out_items') > Len(out_items) =>
           out_items'[Len(out_items')].result.checkpoints = checkpoints'

\* C11: for every job/item, ending in Success or in Error, the checkpoint list
\* only grows (nothing appended is removed, replaced or reordered), its names
\* appear without repetition in the relative order of the fixed stage list,
\* and the progress percents emitted with them are non-decreasing.
C11_AppendOnlyInOrder == [](C11_Ordered) /\ [][C11_Grows]_vars

C11_Witness ==
    /\ pc = "done" /\ Accepted /\ IsBatch
    /\ Len(result.items) = 2
    /\ result.items[1].result.status = "error"
    /\ Len(result.items[1].result.checkpoints) >= 5
    /\ result.items[2].result.status = "success"
    /\ result.items[2].result.checkpoints[Len(result.items[2].result.checkpoints)] = "completed"

----------------------------------------------------------------------------
(* normalize_and_validate() called on its own (worker/validator.py)        *)

\* the variables of run(), at rest while another function is exercised
run_vars == <<job, env, defaults, pc, normalized, idx, checkpoints, out_items, trace, result, raised>>

RunIdle ==
    /\ job = <<>>
    /\ env = <<>>
    /\ defaults = <<>>
    /\ pc = "idle"
    /\ normalized = <<>>
    /\ idx = -1
    /\ checkpoints = <<>>
    /\ out_items = <<>>
    /\ trace = <<>>
    /\ result = Pending
    /\ raised = NoExc

\* frame counts on both sides of the 4n+1 rule and of zero
FrameNums == {-5, -3, 0, 1, 80, 81}

\* the audio of a payload: one speaker, two speakers, the second speaker
\* alone, text-to-speech, none
AudioChoices == {"one", "two", "second", "tts", "none"}

AudioOf(a) ==
    CASE a = "one" -> [cond_audio |-> [person1 |-> "https://host/a.wav", person2 |-> None]]
      [] a = "two" -> [cond_audio |-> [person1 |-> "https://host/a.wav",
                                       person2 |-> "https://host/b.wav"]]
      [] a = "second" -> [cond_audio |-> [person1 |-> None, person2 |-> "https://host/b.wav"]]
      [] a = "tts" -> [tts_audio |-> [text |-> "hello"]]
      [] OTHER -> <<>>

\* a key that is present with value v, or absent when v is None
Opt(k, v) == IF v = None THEN <<>> ELSE [x \in {k} |-> v]

\* a payload with the given optional fields
MakePayload(hasFrames, f, a, t, q, qd, oc) ==
    Merge(Merge(Merge(Merge(Merge(Merge(
        [prompt |-> "talk", cond_video |-> "https://host/v.mp4"],
        IF hasFrames THEN [frame_num |-> f] ELSE <<>>),
        AudioOf(a)),
        Opt("audio_type", t)),
        Opt("quant", q)),
        Opt("quant_dir", qd)),
        IF oc THEN [output_config |-> [store |-> "inline"]] ELSE <<>>)

ValidationPayloads ==
    {MakePayload(hf, f, a, t, q, qd, oc) :
        hf \in BOOLEAN, f \in FrameNums, a \in AudioChoices, t \in {None, "para", "mix"},
        q \in {None, "int8"}, qd \in {None, "", "/models/quant"}, oc \in BOOLEAN}

\* the items batches are made of
ValidationItems ==
    {MakePayload(TRUE, 81, "one", None, None, None, FALSE),
     MakePayload(TRUE, 80, "one", None, None, None, FALSE),
     MakePayload(FALSE, 81, "two", "add", "int8", "/models/quant", TRUE),
     MakePayload(FALSE, 81, "two", None, "int8", "", FALSE),
     Merge(MakePayload(TRUE, 81, "one", None, None, None, FALSE), [prompt |-> ""]),
     Merge(MakePayload(TRUE, 81, "one", None, None, None, FALSE), [bbox |-> <<10, 20, 30>>]),
     Merge(MakePayload(TRUE, 81, "one", None, None, None, FALSE),
           [bbox |-> <<10, 20, 30, 40>>])}

ValidationEnvelopes ==
    {[id |-> JobId, input |-> p] : p \in ValidationPayloads \cup ValidationItems}
    \cup {[id |-> JobId, input |-> Merge([batch |-> [isList |-> TRUE, items |-> b]], oc)] :
             b \in SeqsUpTo(ValidationItems, MaxBatch),
             oc \in {<<>>, [output_config |-> [store |-> "volume"]]}}

ValidationDefaults ==
    {[version |-> "1"],
     [version |-> "1",
      generation |-> [size |-> "infinitetalk-720", audio_type |-> "add"],
      output |-> [store |-> "s3", bucket |-> "videos"]],
     [version |-> "1",
      generation |-> [frame_num |-> 80, output_config |-> [store |-> "volume"]],
      output |-> [store |-> "s3", bucket |-> "videos"]]}

\* what a call returned: a value, or a ValidationError
Returned(v) == [ok |-> TRUE, value |-> v]
Rejection == [ok |-> FALSE, value |-> <<>>]

\* the result of normalize_and_validate(envelope, defaults)
Normalize(envelope, dflts) ==
    IF Accepts(envelope, dflts) THEN Returned(normalize_and_validate(envelope, dflts))
    ELSE Rejection

\* {"input": payload}: a Python list stays a list
Wrap(payload) ==
    [input |-> IF "batch" \in DOMAIN payload
               THEN [payload EXCEPT !["batch"] = [isList |-> TRUE, items |-> @]]
               ELSE payload]

InitValidate ==
    /\ RunIdle
    /\ download = Idle
    /\ poll = Idle
    /\ \E e \in ValidationEnvelopes, d \in ValidationDefaults :
           validation = [pc |-> "call", envelope |-> e, defaults |-> d]

\* the first call
Validate ==
    /\ validation.pc = "call"
    /\ validation' = [pc |-> "returned", envelope |-> validation.envelope,
                      defaults |-> validation.defaults,
                      out |-> Normalize(validation.envelope, validation.defaults)]
    /\ UNCHANGED <<run_vars, download, poll>>

\* a second call, on what the first call returned
Reapply ==
    /\ validation.pc = "returned"
    /\ validation.out.ok
    /\ validation' = [pc |-> "reapplied", envelope |-> validation.envelope,
                      defaults |-> validation.defaults, out |-> validation.out,
                      again |-> Normalize(validation.out.value, validation.defaults)]
    /\ UNCHANGED <<run_vars, download, poll>>

\* a second call, on what the first call returned put under "input" again
ReapplyWrapped ==
    /\ validation.pc = "returned"
    /\ validation.out.ok
    /\ validation' = [pc |-> "rewrapped", envelope |-> validation.envelope,
                      defaults |-> validation.defaults, out |-> validation.out,
                      again |-> Normalize(Wrap(validation.out.value), validation.defaults)]
    /\ UNCHANGED <<run_vars, download, poll>>

NextValidate ==
    \/ Validate
    \/ Reapply
    \/ ReapplyWrapped

SpecValidate == InitValidate /\ [][NextValidate]_vars

\* the first call has returned or raised
Validated == validation.pc \in {"returned", "reapplied", "rewrapped"}

\* the payloads of the envelope: the single payload or the items of the batch
PayloadsOf(envelope) ==
    LET payload == envelope["input"]
    IN IF "batch" \in DOMAIN payload
       THEN {payload["batch"].items[k] : k \in 1..Len(payload["batch"].items)}
       ELSE {payload}

SetField(envelope, k, v) ==
    LET payload == envelope["input"]
        F(p) == Merge(p, [x \in {k} |-> v])
    IN IF "batch" \in DOMAIN payload
       THEN [envelope EXCEPT !["input"]["batch"].items =
                [i \in 1..Len(payload["batch"].items) |-> F(payload["batch"].items[i])]]
       ELSE [envelope EXCEPT !["input"] = F(payload)]

\* C13: a payload (single payload or batch item) that is otherwise valid is
\* accepted if and only if frame_num > 0 and (frame_num - 1) mod 4 = 0.
C13_FrameNumRule ==
    Validated =>
        LET ps == PayloadsOf(validation.envelope)
        IN (/\ \A p \in ps : "frame_num" \in DOMAIN p
            /\ Accepts(SetField(validation.envelope, "frame_num", 81), validation.defaults)) =>
               (validation.out.ok <=>
                    \A p \in ps : p["frame_num"] > 0 /\ (p["frame_num"] - 1) % 4 = 0)

C13_Witness ==
    /\ validation.pc = "returned"
    /\ "batch" \in DOMAIN validation.envelope["input"]
    /\ Len(validation.envelope["input"]["batch"].items) = 2
    /\ \A p \in PayloadsOf(validation.envelope) : "frame_num" \in DOMAIN p
    /\ validation.envelope["input"]["batch"].items[1]["frame_num"] = 81
    /\ validation.envelope["input"]["batch"].items[2]["frame_num"] = 80
    /\ Accepts(SetField(validation.envelope, "frame_num", 81), validation.defaults)
    /\ ~validation.out.ok

TwoSpeakers(p) ==
    /\ "cond_audio" \in DOMAIN p
    /\ p["cond_audio"].person1 # None
    /\ p["cond_audio"].person2 # None

\* C14: a payload in which both cond_audio.person1 and cond_audio.person2 are
\* set is rejected unless its audio_type is one of para / add.
C14_TwoSpeakersNeedAudioType ==
    (Validated /\ validation.out.ok) =>
        \A p \in PayloadsOf(validation.envelope) :
            TwoSpeakers(p) => /\ "audio_type" \in DOMAIN p
                              /\ p["audio_type"] \in {"para", "add"}

C14_Witness ==
    /\ validation.pc = "returned"
    /\ "batch" \notin DOMAIN validation.envelope["input"]
    /\ TwoSpeakers(validation.envelope["input"])
    /\ "audio_type" \notin DOMAIN validation.envelope["input"]
    /\ "audio_type" \in DOMAIN Get(validation.defaults, "generation", <<>>)
    /\ Accepts(SetField(validation.envelope, "audio_type", "para"), validation.defaults)
    /\ ~validation.out.ok

\* C15: a payload in which quant is set is rejected unless its quant_dir is a
\* non-empty string.
C15_QuantNeedsQuantDir ==
    (Validated /\ validation.out.ok) =>
        \A p \in PayloadsOf(validation.envelope) :
            "quant" \in DOMAIN p => /\ "quant_dir" \in DOMAIN p
                                    /\ p["quant_dir"] # ""

C15_Witness ==
    /\ validation.pc = "returned"
    /\ "batch" \notin DOMAIN validation.envelope["input"]
    /\ "quant" \in DOMAIN validation.envelope["input"]
    /\ "quant_dir" \in DOMAIN validation.envelope["input"]
    /\ validation.envelope["input"]["quant_dir"] = ""
    /\ Accepts(SetField(validation.envelope, "quant_dir", "/models/quant"), validation.defaults)
    /\ ~validation.out.ok

\* n is what the caller's payload p becomes under the defaults document d:
\* the caller's fields, then the generation defaults for the fields the caller
\* left out, then the output sub-tree for an output_config nobody gave
ShallowOverride(p, n, d) ==
    LET gen == Get(d, "generation", <<>>)
    IN /\ DOMAIN n = (DOMAIN p) \cup (DOMAIN gen)
                         \cup (IF "output" \in DOMAIN d THEN {"output_config"} ELSE {})
       /\ \A k \in DOMAIN n :
              n[k] = (IF k \in DOMAIN p THEN p[k]
                      ELSE IF k \in DOMAIN gen THEN gen[k]
                      ELSE d["output"])

\* C16: the merge of caller input with operator defaults is a shallow
\* top-level override: every top-level field of the normalized payload is the
\* caller's value when the caller supplied the field and the generation
\* default otherwise, and output_config comes from the defaults' output
\* sub-tree only when the caller supplied no output_config.
C16_ShallowOverride ==
    (Validated /\ validation.out.ok) =>
        LET payload == validation.envelope["input"]
            n == validation.out.value
        IN IF "batch" \in DOMAIN payload
           THEN /\ Len(n["batch"]) = Len(payload["batch"].items)
                /\ \A k \in 1..Len(n["batch"]) :
                       ShallowOverride(payload["batch"].items[k], n["batch"][k],
                                       validation.defaults)
           ELSE ShallowOverride(payload, n, validation.defaults)

C16_Witness ==
    /\ validation.pc = "returned"
    /\ validation.out.ok
    /\ "batch" \notin DOMAIN validation.envelope["input"]
    /\ "bucket" \in DOMAIN Get(validation.defaults, "output", <<>>)
    /\ "size" \in DOMAIN Get(validation.defaults, "generation", <<>>)
    /\ "output_config" \in DOMAIN validation.envelope["input"]
    /\ validation.out.value["output_config"] = [store |-> "inline"]
    /\ validation.out.value["size"] = "infinitetalk-720"
    /\ validation.out.value["audio_type"] = "para"

\* the payload without its nested output_config
WithoutOutputConfig(p) == [k \in DOMAIN p \ {"output_config"} |-> p[k]]

\* C37: a batch envelope is accepted only if its list is non-empty and every
\* item satisfies the same per-field and cross-field constraints as a single
\* payload (non-empty prompt, bbox of exactly 4 integers, frame_num = 4n+1,
\* audio presence, two-speaker audio_type, quant/quant_dir), the only
\* exemption being the nested output_config.
C37_BatchItemsAsSingle ==
    (Validated /\ validation.out.ok /\ "batch" \in DOMAIN validation.envelope["input"]) =>
        LET b == validation.envelope["input"]["batch"]
        IN /\ b.isList
           /\ Len(b.items) > 0
           /\ \A k \in 1..Len(b.items) : SingleInputValid(WithoutOutputConfig(b.items[k]))

----------------------------------------------------------------------------
(* download_from_url() called on its own (worker/storage.py)               *)

MAX_RETRIES == 3

\* BACKOFF_SEC = 1.5, in tenths of a second
BACKOFF_TENTHS == 15

\* the file contents there are, and their SHA-256 digests in lower-case hex
Contents == {"bytes-1", "bytes-2"}

sha256_hexdigest(content) == IF content = "bytes-1" THEN "1f" ELSE "2e"

\* str.lower() of a hex digest
HexLower(digest) ==
    CASE digest = "1F" -> "1f"
      [] digest = "2E" -> "2e"
      [] OTHER -> digest

\* the checksum_sha256 argument: not given, or a digest in either case
Checksums == {None, "1f", "1F", "2e"}

\* what the first argument is: an existing local path, a data URL, raw
\* base64, an http or https URL, or something else (an ftp URL, a path that
\* does not exist)
RefKinds == {"path", "data_url", "base64", "http", "https", "other"}

\* the references: for a path or a base64 payload, the content behind it
References == {[kind |-> k, content |-> c] : k \in RefKinds, c \in Contents}

Filenames == {None, "in.wav"}

\* what one requests.get attempt can end in: a body, or an exception
AttemptFailures == {Exc("ConnectionError", MsgPlain), Exc("HTTPError", MsgPlain)}

MsgChecksum == <<"Checksum", "mismatch", "for", "downloaded", "file">>
MsgUnsupported == <<"Unsupported", "input", "reference">>

\* a sleep that does not grow with the attempt number
Backoff_Flat(attempt) == BACKOFF_TENTHS

\* time.sleep(BACKOFF_SEC * attempt)
Backoff(attempt) == BACKOFF_TENTHS * attempt

\* DownloadResult, with the content of the file at path
DownloadResult(path, content, from_url) ==
    [path |-> path, content |-> content, from_url |-> from_url]

\* filename or "blob"
FetchName(filename) == IF Truthy(filename) THEN filename ELSE "blob"

InitDownload ==
    /\ RunIdle
    /\ validation = Idle
    /\ poll = Idle
    /\ \E r \in References, c \in Checksums, f \in Filenames :
           download = [pc |-> "call", ref |-> r, checksum_sha256 |-> c, filename |-> f,
                       attempt |-> 0, tried |-> <<>>, slept |-> <<>>,
                       result |-> Pending, raised |-> NoExc]

\* lines 97-108 and 141-142: the kind of reference is told apart
DownloadBegin ==
    /\ download.pc = "call"
    /\ LET r == download.ref
       IN download' =
              CASE r.kind = "path" ->
                     [download EXCEPT !.pc = "returned",
                                      !.result = DownloadResult("/data/in.wav", r.content, None)]
                [] r.kind \in {"data_url", "base64"} ->
                     [download EXCEPT !.pc = "returned",
                                      !.result = DownloadResult(FetchName(download.filename),
                                                                r.content, None)]
                [] r.kind \in {"http", "https"} ->
                     [download EXCEPT !.pc = "attempt", !.attempt = 1]
                [] OTHER ->
                     [download EXCEPT !.pc = "raised",
                                      !.raised = Exc("ValueError", MsgUnsupported)]
    /\ UNCHANGED <<run_vars, validation, poll>>

\* the except block of an attempt: lines 135-139
AttemptFailed(exc) ==
    IF download.attempt = MAX_RETRIES
    THEN [download EXCEPT !.pc = "raised",
                          !.tried = Append(@, exc.cls),
                          !.raised = exc]
    ELSE [download EXCEPT !.tried = Append(@, exc.cls),
                          !.slept = Append(@, Backoff(download.attempt)),
                          !.attempt = @ + 1]

\* one attempt in which requests.get or raise_for_status raises
AttemptRaises ==
    /\ download.pc = "attempt"
    /\ \E exc \in AttemptFailures : download' = AttemptFailed(exc)
    /\ UNCHANGED <<run_vars, validation, poll>>

\* one attempt in which the body is received and written: lines 111-134
AttemptDownloads ==
    /\ download.pc = "attempt"
    /\ \E body \in Contents :
           download' =
               IF /\ Truthy(download.checksum_sha256)
                  /\ sha256_hexdigest(body) # HexLower(download.checksum_sha256)
               THEN AttemptFailed(Exc("ValueError", MsgChecksum))
               ELSE [download EXCEPT !.pc = "returned",
                                     !.tried = Append(@, "ok"),
                                     !.result = DownloadResult(FetchName(download.filename),
                                                               body, download.ref.kind)]
    /\ UNCHANGED <<run_vars, validation, poll>>

NextDownload ==
    \/ DownloadBegin
    \/ AttemptRaises
    \/ AttemptDownloads

SpecDownload == InitDownload /\ [][NextDownload]_vars

Remote == download.pc # "idle" /\ download.ref.kind \in {"http", "https"}

\* the number of attempts that have failed
FailedAttempts == Cardinality({k \in 1..Len(download.tried) : download.tried[k] # "ok"})

\* C17: a remote (http/https) fetch makes at most 3 attempts: it returns at
\* the first successful attempt, sleeps 1.5 s times the attempt number after
\* each failed attempt except the last, and propagates the failure of the
\* final attempt without sleeping again.
C17_BoundedRetries ==
    Remote =>
        /\ Len(download.tried) <= 3
        /\ \A k \in 1..(Len(download.tried) - 1) : download.tried[k] # "ok"
        /\ download.pc = "returned" <=>
               (Len(download.tried) > 0 /\ download.tried[Len(download.tried)] = "ok")
        /\ download.pc = "raised" <=> FailedAttempts = 3
        /\ download.pc = "raised" => download.raised.cls = download.tried[3]
        /\ download.slept =
               [k \in 1..(IF download.pc = "raised" THEN 2 ELSE FailedAttempts) |-> 15 * k]

C17_Witness ==
    /\ Remote
    /\ download.pc = "raised"
    /\ download.tried = <<"ConnectionError", "ValueError", "HTTPError">>
    /\ download.slept = <<15, 30>>

\* C18: whenever the fetch is called with an expected SHA-256 checksum, it
\* never returns a successful result for content whose digest differs from
\* the expected one, for every kind of reference it accepts (remote URL,
\* inline-encoded payload, existing local path).
C18_ChecksumEnforced ==
    (download.pc = "returned" /\ Truthy(download.checksum_sha256)) =>
        sha256_hexdigest(download.result.content) = HexLower(download.checksum_sha256)

----------------------------------------------------------------------------
(* Delivery of the finished video *)

\* the output_config item i runs with
OutCfgOf(i) == Get(ParamsOf(i), "output_config", <<>>)

\* positions of the trace at which item i made a call of op
CallPositions(i, op) ==
    {k \in 1..Len(trace) : trace[k].item = i /\ trace[k].kind = "call" /\ trace[k].name = op}

\* C19: when an upload destination is configured, the finished artifact is
\* pushed with exactly one HTTP transfer attempt per job/item (never
\* retried), issued only after generation has succeeded, and any non-2xx
\* response status makes that job/item end in an Error envelope without the
\* completed checkpoint.
C19_SingleUploadAfterGeneration ==
    \A i \in ItemIndexes :
        /\ Cardinality(CallPositions(i, "upload")) <= 1
        /\ \A u \in CallPositions(i, "upload") :
               /\ "video_url" \in DOMAIN OutCfgOf(i)
               /\ \E g \in CallPositions(i, "generate") : g < u /\ trace[g].out = "ok"
               /\ \E m \in CallPositions(i, "save_video") : m < u /\ trace[m].out = "ok"
               /\ Finished(i)
               /\ (trace[u].num \div 100 # 2) =>
                      /\ ResultOf(i).status = "error"
                      /\ \A k \in 1..Len(ResultOf(i).checkpoints) :
                             ResultOf(i).checkpoints[k] # "completed"
               /\ (trace[u].num \div 100 = 2) => ResultOf(i).status = "success"
        /\ (Finished(i) /\ "video_url" \in DOMAIN OutCfgOf(i) /\ ~InferenceFailed(i)) =>
               Cardinality(CallPositions(i, "upload")) = 1

C19_Witness ==
    /\ pc = "done" /\ Accepted /\ IsBatch
    /\ Len(result.items) = 2
    /\ \A i \in {0, 1} :
           /\ "video_url" \in DOMAIN OutCfgOf(i)
           /\ Cardinality(CallPositions(i, "upload")) = 1
    /\ Cardinality(CallPositions(0, "generate")) = 2
    /\ UploadFailed(0)
    /\ result.items[1].result.status = "error"
    /\ result.items[2].result.status = "success"

\* the artifact records of an envelope that carry base64 content
InlineArtifacts(res) ==
    {k \in 1..Len(res.artifacts) : "base64" \in DOMAIN res.artifacts[k]}

\* C20: when the configured store is inline and no upload destination is
\* given, the Success envelope returned by run carries the file content
\* base64-encoded in exactly one artifact record, carries no base64 content
\* in the top-level video field, and has a warning that inline delivery is
\* unsuitable for large outputs.
C20_InlineArtifact ==
    \A i \in ItemIndexes :
        (/\ Finished(i)
         /\ ResultOf(i).status = "success"
         /\ Get(OutCfgOf(i), "store", "s3") = "inline"
         /\ "video_url" \notin DOMAIN OutCfgOf(i)) =>
            /\ Cardinality(InlineArtifacts(ResultOf(i))) = 1
            /\ "base64" \notin DOMAIN ResultOf(i).video
            /\ \E k \in 1..Len(ResultOf(i).warnings) : ResultOf(i).warnings[k] = WarnInline

\* item i was given neither an upload destination nor the inline store
LocalDelivery(i) ==
    /\ "video_url" \notin DOMAIN OutCfgOf(i)
    /\ Get(OutCfgOf(i), "store", "s3") # "inline"

\* C21: when no upload destination is configured and the store is not
\* inline, a successful result lists exactly one video artifact whose path is
\* the local result file and which has no url, the top-level video url is
\* null, exactly one warning is attached, and no HTTP upload is attempted.
C21_LocalPathFallback ==
    \A i \in ItemIndexes :
        (Finished(i) /\ ResultOf(i).status = "success" /\ LocalDelivery(i)) =>
            /\ Len(ResultOf(i).artifacts) = 1
            /\ ResultOf(i).artifacts[1].type = "video"
            /\ ResultOf(i).artifacts[1].path = VideoPath
            /\ ResultOf(i).artifacts[1].url = None
            /\ ResultOf(i).video.url = None
            /\ ResultOf(i).warnings = <<WarnLocal>>
            /\ CallPositions(i, "upload") = {}

C21_Witness ==
    /\ pc = "done" /\ Accepted /\ ~IsBatch
    /\ result.status = "success"
    /\ LocalDelivery(-1)
    /\ OutCfgOf(-1) = [store |-> "volume"]
    /\ Len(result.artifacts) = 1
    /\ result.warnings = <<WarnLocal>>

----------------------------------------------------------------------------
(* The stage an item failed in, the stage boundaries, the seeding *)

\* positions of the trace at which item i wrote the log line of an event
LogPositions(i, event) ==
    {k \in 1..Len(trace) : trace[k].item = i /\ trace[k].kind = "log" /\ trace[k].name = event}

ErrorItems == {i \in ItemIndexes : Finished(i) /\ ResultOf(i).status = "error"}

\* the last call of op item i made did not succeed
LastCallFailed(i, op) ==
    LET c == CallsOf(i, op)
    IN Len(c) > 0 /\ c[Len(c)].out # "ok"

\* item i failed before the pipeline was built: while fetching or preparing
PrepareFailed(i) ==
    /\ i \in ErrorItems
    /\ CallPositions(i, "build") = {}
    /\ ResultOf(i).error.cause_message # MsgModelPaths

\* item i failed because the pipeline could not be built
BuildFailed(i) ==
    /\ i \in ErrorItems
    /\ CallPositions(i, "build") = {}
    /\ ResultOf(i).error.cause_message = MsgModelPaths

GenerationFailed(i) == i \in ErrorItems /\ LastCallFailed(i, "generate")

\* the names an Error envelope may give each stage
PrepareStageNames == {"prepare", "preparation", "preprocess", "preprocessing", "inputs"}
LoadStageNames == {"load", "build", "models_loading", "pipeline_load"}
GenerationStageNames == {"generation", "generate"}
UploadStageNames == {"upload", "uploading_artifacts"}

\* C28: in every Error envelope error.at_stage names the stage that was
\* active when the failure occurred: the preparation stage for a failure
\* while fetching or preparing inputs, the load stage for a failure building
\* the pipeline, generation for a failure of the generation call, the upload
\* stage for a failed upload.
C28_AtStageIsFailingStage ==
    \A i \in ErrorItems :
        LET st == ResultOf(i).error.at_stage
        IN /\ PrepareFailed(i) => st \in PrepareStageNames
           /\ BuildFailed(i) => st \in LoadStageNames
           /\ GenerationFailed(i) => st \in GenerationStageNames
           /\ UploadFailed(i) => st \in UploadStageNames

Before(a, b) == \A x \in a, y \in b : x < y

\* C29: a checkpoint is emitted only once the stage boundary it names has been
\* reached: models_ready never before the pipeline has been built,
\* preprocessing_done never before the inputs have been fetched and prepared;
\* a job that fails while fetching inputs or with a missing-model-path error
\* has neither a models_ready nor a generation_start checkpoint.
C29_CheckpointAtBoundary ==
    \A i \in ItemIndexes :
        /\ LogPositions(i, "models_ready") # {} =>
               /\ CallPositions(i, "build") # {}
               /\ \E b \in CallPositions(i, "build") : Before({b}, LogPositions(i, "models_ready"))
        /\ LogPositions(i, "preprocessing_done") # {} =>
               /\ CallPositions(i, "fetch") # {}
               /\ Before(CallPositions(i, "fetch"), LogPositions(i, "preprocessing_done"))
        /\ (PrepareFailed(i) \/ BuildFailed(i)) =>
               \A k \in 1..Len(ResultOf(i).checkpoints) :
                   ResultOf(i).checkpoints[k] \notin {"models_ready", "generation_start"}

\* the job carries a seed next to its batch
BatchSeed == "batch" \in DOMAIN job["input"] /\ "base_seed" \in DOMAIN job["input"]

\* positions of the trace at which the random-number sources were seeded
SeedPositions == {k \in 1..Len(trace) : trace[k].kind = "call" /\ trace[k].name = "seed"}

\* C30: when a batch job carries a non-negative seed, the random-number
\* sources are seeded exactly once, before the first item begins; when items
\* carry their own seeds, each such item's generation stage seeds the
\* random-number sources immediately before invoking the generation
\* collaborator.
C30_SeedOncePerBatchOrPerItem ==
    (Accepted /\ IsBatch) =>
        /\ (BatchSeed /\ job["input"]["base_seed"] >= 0 /\ pc # "item") =>
               /\ Cardinality(SeedPositions) = 1
               /\ \A k \in 1..Len(trace) : trace[k].item # -1 => Before(SeedPositions, {k})
        /\ \A i \in ItemIndexes :
               "base_seed" \in DOMAIN ParamsOf(i) =>
                   \A g \in CallPositions(i, "generate") :
                       /\ g > 1
                       /\ trace[g - 1].kind = "call"
                       /\ trace[g - 1].name = "seed"
                       /\ trace[g - 1].item = i

----------------------------------------------------------------------------
(* The envelope's output_config, the working directories, the model paths, *)
(* the parameters generation reads and the parameters a result echoes      *)

\* C31: in batch mode, an output_config supplied at the envelope level is the
\* output configuration used to deliver every item that has no output_config
\* of its own, taking precedence over the operator default output
\* configuration.
C31_EnvelopeOutputConfig ==
    (Accepted /\ IsBatch /\ "output_config" \in DOMAIN job["input"]) =>
        \A i \in ItemIndexes :
            "output_config" \notin DOMAIN job["input"]["batch"].items[i + 1] =>
                /\ "video_url" \in DOMAIN OutCfgOf(i)
                /\ OutCfgOf(i) = job["input"]["output_config"]
                /\ (Finished(i) /\ ResultOf(i).status = "success") =>
                       /\ Len(CallsOf(i, "upload")) = 1
                       /\ ResultOf(i).video.url = job["input"]["output_config"]["video_url"]

\* os.path.join("/tmp", f"job-{job_id}")
base_workdir == "/tmp/job-" \o job["id"]

\* the workdir run() hands to _run_single_item for item i; the ids of the
\* model are relative names, which os.path.join appends after a separator
Workdir(i) ==
    IF IsBatch THEN base_workdir \o "/" \o ItemId(ParamsOf(i), i) ELSE base_workdir

\* C32: within one batch no two items are ever assigned the same working
\* directory, for every combination of caller-supplied item ids and generated
\* item-<index> ids; each item's working directory is exclusively its own.
C32_OwnWorkdir ==
    (Accepted /\ IsBatch) =>
        \A i, j \in ItemIndexes : (i < j /\ j <= idx) => Workdir(i) # Workdir(j)

\* _resolve_model_paths(): the three directories the pipeline needs
RequiredPathsSet == ModelPathsSet /\ Truthy(env.WAV2VEC_DIR)

\* C33: if any required model path is absent from the environment (checkpoint
\* directory, InfiniteTalk directory or wav2vec directory), the job ends in an
\* Error envelope whose code is E_PIPELINE_LOAD with retryable = false, and
\* generation is never invoked.
C33_MissingPathIsPipelineLoad ==
    ~RequiredPathsSet =>
        \A i \in ItemIndexes :
            /\ CallPositions(i, "generate") = {}
            /\ Finished(i) =>
                   /\ ResultOf(i).status = "error"
                   /\ ResultOf(i).error.code = "E_PIPELINE_LOAD"
                   /\ ResultOf(i).error.retryable = FALSE

\* sample_steps within [1, 1000], color_correction_strength (in tenths)
\* within [0, 1]
OutOfRange(p) ==
    \/ "sample_steps" \in DOMAIN p /\ p["sample_steps"] \notin 1..1000
    \/ "color_correction_strength" \in DOMAIN p /\ p["color_correction_strength"] \notin 0..10

\* C36: validation rejects every payload (single or batch item) whose
\* sample_steps is outside [1, 1000] or whose color_correction_strength is
\* outside [0, 1]; no such payload reaches the generation stage.
C36_RangesEnforced ==
    (pc \notin {"idle", "received"} /\ \E p \in PayloadsOf(job) : OutOfRange(p)) =>
        /\ ~Accepted
        /\ \A k \in 1..Len(trace) : ~(trace[k].kind = "call" /\ trace[k].name = "generate")

\* C38: for every payload accepted by normalize_and_validate, the normalized
\* output holds a value for every generation parameter that the orchestrator
\* reads (notably size), also when neither the caller nor the operator
\* defaults supply it, so that an accepted payload never fails at the
\* generation stage because a parameter is missing.
C38_NormalizedHasEveryParameter ==
    \A i \in ItemIndexes :
        /\ {"prompt", "cond_video", "size"} \subseteq DOMAIN ParamsOf(i)
        /\ (Finished(i) /\ ResultOf(i).status = "error") =>
               ResultOf(i).error.cause_class # "KeyError"

\* C39: the parameters echoed in a Success envelope (size, sample_steps) equal
\* the configuration with which the successful generation attempt actually
\* ran, including when the result was produced by the reduced-configuration
\* retry after an out-of-memory failure.
C39_EchoIsWhatRan ==
    \A i \in ItemIndexes :
        (Finished(i) /\ ResultOf(i).status = "success") =>
            LET runs == CallsOf(i, "generate")
                ran == runs[Len(runs)]
                echo == ResultOf(i).params
            IN /\ ran.out = "ok"
               /\ echo["size"] = ran.size
               /\ "sample_steps" \in DOMAIN echo => echo["sample_steps"] = ran.num

----------------------------------------------------------------------------
(* The UI client (ui/runpod_client.py, ui/app.py): submit, poll, render    *)

\* Largest reading of the polling loop's clock, in seconds; later readings
\* are taken to be this one.
MaxElapsed == 125

\* Longest time one status call is taken to add to the clock, in seconds.
MaxLatency == 9

\* _request_with_retry: max_retries, and base_sleep = 0.8 in tenths of a second
max_retries == 5
base_sleep_tenths == 8

\* POLL_INIT_SEC = 2.0 and POLL_MAX_SEC = 6.0 in thirtieths of a second
POLL_INIT_30THS == 60
POLL_MAX_30THS == 180
POLL_BACKOFF_AFTER_S == 120

RECURSIVE Pow2(_)
Pow2(n) == IF n = 0 THEN 1 ELSE 2 * Pow2(n - 1)

\* a retry sleep that does not double
RetrySleep_Flat(attempt) == base_sleep_tenths

\* min(8.0, base_sleep * (2 ** attempt)), in tenths of a second
RetrySleep(attempt) == Min(80, base_sleep_tenths * Pow2(attempt))

\* resp.status_code == 429 or 500 <= resp.status_code < 600
RetryableStatus(code) == code = 429 \/ (500 <= code /\ code < 600)

\* an interval that keeps growing past the maximum
PollInterval_NoCap(elapsed) ==
    POLL_INIT_30THS + (elapsed * (POLL_MAX_30THS - POLL_INIT_30THS)) \div POLL_BACKOFF_AFTER_S

\* min(POLL_MAX_SEC, POLL_INIT_SEC + (elapsed / POLL_BACKOFF_AFTER_S) *
\* (POLL_MAX_SEC - POLL_INIT_SEC)), in thirtieths of a second, for elapsed in
\* whole seconds
PollInterval(elapsed) ==
    Min(POLL_MAX_30THS,
        POLL_INIT_30THS + (elapsed * (POLL_MAX_30THS - POLL_INIT_30THS)) \div POLL_BACKOFF_AFTER_S)

\* str.upper() of a status
Upper(status) ==
    CASE status = "completed" -> "COMPLETED"
      [] status = "failed" -> "FAILED"
      [] OTHER -> status

\* a terminal set without TIMEOUT
TerminalStatuses_NoTimeout == {"COMPLETED", "FAILED"}

TerminalStatuses == {"COMPLETED", "FAILED", "TIMEOUT"}

\* base64.b64decode
b64decode(text) == IF text = "AAAA" THEN "raw-video-bytes" ELSE "raw-other-bytes"

\* json.dumps of an output, abbreviated
json_dumps(output) == IF DOMAIN output = {} THEN <<"{}">> ELSE <<"{...}">>

\* the codes _format_error_message has a tip for
TipCodes ==
    {"E_INPUT_VALIDATION", "E_DOWNLOAD_FAILED", "E_AUDIO_EMBEDDING", "E_PIPELINE_LOAD",
     "E_OOM", "E_FFMPEG", "E_UPLOAD", "E_TIMEOUT"}

\* a message that leaves the code out
_format_error_message_NoCode(code, message) == message

_format_error_message(code, message) ==
    (IF Truthy(code) THEN <<code, ":">> ELSE <<>>) \o message
        \o (IF code \in TipCodes THEN <<"Tip", "See", "GUIDE.md#troubleshooting">> ELSE <<>>)

\* the (url, raw bytes, mime) triple of _pick_video_result
Picked(url, raw, mime) == [url |-> url, raw |-> raw, mime |-> mime]

MimeOf(d) == IF Truthy(Get(d, "mime", None)) THEN d["mime"] ELSE "video/mp4"

\* the loop over the artifacts list, from index k on
RECURSIVE PickFromArtifacts(_, _)
PickFromArtifacts(arts, k) ==
    IF k > Len(arts) THEN Picked(None, None, None)
    ELSE LET a == arts[k]
         IN IF Get(a, "type", None) = "video" /\ Truthy(Get(a, "url", None))
            THEN Picked(a["url"], None, MimeOf(a))
            ELSE IF Get(a, "type", None) = "video" /\ Truthy(Get(a, "base64", None))
            THEN Picked(None, b64decode(a["base64"]), MimeOf(a))
            ELSE PickFromArtifacts(arts, k + 1)

\* a pick that looks at the artifacts list only
_pick_video_result_ArtifactsOnly(output) == PickFromArtifacts(Get(output, "artifacts", <<>>), 1)

_pick_video_result(output) ==
    LET video == Get(output, "video", <<>>)
    IN IF Truthy(Get(video, "url", None))
       THEN Picked(video["url"], None, MimeOf(video))
       ELSE IF Truthy(Get(video, "base64", None))
       THEN Picked(None, b64decode(video["base64"]), MimeOf(video))
       ELSE PickFromArtifacts(Get(output, "artifacts", <<>>), 1)

\* outputs a COMPLETED status can embed
OutVideoUrl ==
    [job_id |-> JobId, status |-> "success",
     video |-> [url |-> "https://bucket/v.mov", mime |-> "video/quicktime"],
     artifacts |-> <<[type |-> "video", url |-> "https://bucket/artifact.mp4",
                      mime |-> "video/mp4"]>>]

OutVideoUrlNoMime ==
    [job_id |-> JobId, status |-> "success",
     video |-> [url |-> "https://bucket/v.mp4"],
     artifacts |-> <<[type |-> "video", path |-> VideoPath, base64 |-> "AAAA"]>>]

OutInline ==
    [job_id |-> JobId, status |-> "success",
     video |-> [mime |-> "video/mp4"],
     artifacts |-> <<[type |-> "video", path |-> VideoPath, base64 |-> "AAAA",
                      mime |-> "video/mp4"]>>]

OutInlineThenUrl ==
    [job_id |-> JobId, status |-> "success",
     video |-> [mime |-> "video/mp4"],
     artifacts |-> <<[type |-> "video", base64 |-> "AAAA"],
                     [type |-> "video", url |-> "https://bucket/artifact.mp4"]>>]

OutLocal ==
    [job_id |-> JobId, status |-> "success",
     video |-> [mime |-> "video/mp4"],
     artifacts |-> <<[type |-> "video", path |-> VideoPath, mime |-> "video/mp4"]>>]

\* the Error envelope of the worker
OutErrorEnvelope ==
    [job_id |-> JobId, status |-> "error",
     error |-> [code |-> "E_OOM", message |-> MsgOutOfMemory, retryable |-> TRUE]]

MsgTimedOut == <<"execution", "timed", "out">>

\* f"Job ended with status={s}"
MsgJobEnded(s) == <<"Job", "ended", "with", "status=" \o s>>

\* the status responses the remote job can end in; an output that is not a
\* JSON object but a string is held under output_text
TerminalResponses ==
    {[status |-> "COMPLETED", output |-> o] :
        o \in {OutVideoUrl, OutVideoUrlNoMime, OutInline, OutInlineThenUrl, OutLocal,
               OutErrorEnvelope}}
    \cup {[status |-> "completed", output |-> OutVideoUrl],
          [status |-> "COMPLETED"],
          [status |-> "FAILED", output |-> OutErrorEnvelope],
          [status |-> "FAILED",
           output |-> [error |-> [code |-> "E_CUSTOM", message |-> MsgPlain]]],
          [status |-> "FAILED", output |-> [error |-> [message |-> MsgPlain]]],
          [status |-> "FAILED"],
          [status |-> "FAILED", output |-> <<>>],
          [status |-> "FAILED", output |-> [job_id |-> JobId]],
          [status |-> "FAILED", output_text |-> "worker exited"],
          [status |-> "TIMEOUT",
           output |-> [error |-> [code |-> "E_TIMEOUT", message |-> MsgTimedOut]]],
          [status |-> "TIMEOUT"]}

\* what one HTTP request ends in: a response with a status code, or a
\* requests.RequestException
HttpOutcomes ==
    {[exc |-> FALSE, code |-> c] : c \in {200, 404, 429, 503}} \cup {[exc |-> TRUE, code |-> 0]}

\* one call of _request_with_retry: the requests issued, the sleeps taken and
\* what the latest request ended in
NewCall(name) ==
    [name |-> name, requests |-> 0, slept |-> <<>>, done |-> FALSE,
     outcome |-> [exc |-> FALSE, code |-> 0]]

\* the call after a request that is to be retried: lines 43-53
Retried(call, outcome) ==
    [call EXCEPT !.requests = @ + 1,
                 !.outcome = outcome,
                 !.slept = Append(@, RetrySleep(call.requests)),
                 !.done = (call.requests + 1 = max_retries)]

\* the call after a request whose response is returned: line 48
Answered(call, outcome) ==
    [call EXCEPT !.requests = @ + 1, !.outcome = outcome, !.done = TRUE]

MsgFailedAfter == <<"Failed", "after", "5", "attempts">>
MsgHttpError == <<"Runpod", "error", "HTTP">>

\* what the client shows: status_text, the (output, error_message) of the
\* polling loop, and the picked video
Shown(text, output, err, picked) ==
    [status_text |-> text, output |-> output, err |-> err, picked |-> picked]

NothingShown == Shown("", <<>>, <<>>, Picked(None, None, None))

\* _poll_and_render after _poll_status_stream returned (output, None)
RenderOutput(output) ==
    IF DOMAIN output = {}
    THEN Shown("No output received.", <<>>, <<>>, Picked(None, None, None))
    ELSE LET p == _pick_video_result(output)
         IN IF Truthy(p.url) \/ Truthy(p.raw)
            THEN Shown("Completed job", output, <<>>, p)
            ELSE Shown("Completed job (no video artifact detected)", output, <<>>, p)

\* _poll_and_render after _poll_status_stream returned (None, err)
RenderError(err) == Shown("Error", <<>>, err, Picked(None, None, None))

\* the return of _poll_status_stream for a terminal response: lines 281-292
RenderTerminal(response) ==
    LET output == Get(response, "output", <<>>)
    IN IF Upper(response.status) = "COMPLETED"
       THEN RenderOutput(output)
       ELSE IF "output_text" \in DOMAIN response
       THEN RenderError(MsgJobEnded(Upper(response.status)))
       ELSE LET err == Get(output, "error", <<>>)
                code == Get(err, "code", None)
                msg == IF "message" \in DOMAIN err THEN err["message"] ELSE json_dumps(output)
            IN RenderError(_format_error_message(code, msg))

InitPoll ==
    /\ RunIdle
    /\ validation = Idle
    /\ download = Idle
    /\ poll = [pc |-> "submitting",
               call |-> NewCall("submit"),
               remote |-> [status |-> "NOT_SUBMITTED"],
               started |-> FALSE,
               elapsed |-> 0,
               interval |-> POLL_INIT_30THS,
               cancel |-> FALSE,
               sent |-> {},
               last |-> [status |-> "NONE"],
               hard |-> FALSE,
               shown |-> NothingShown]

\* the call and the requests sent after one more request of kind
CallAfter(call, outcome) ==
    IF outcome.exc \/ RetryableStatus(outcome.code) THEN Retried(call, outcome)
    ELSE Answered(call, outcome)

\* a call ended without a response that can be used: every attempt was used
\* up, or the response is not a success
CallFailed(call, outcome) ==
    IF outcome.exc \/ RetryableStatus(outcome.code) THEN call.requests + 1 = max_retries
    ELSE outcome.code # 200

\* _submit: one request of submit_job
SubmitAttempt ==
    /\ poll.pc = "submitting"
    /\ \E outcome \in HttpOutcomes :
          LET call == CallAfter(poll.call, outcome)
              p1 == [poll EXCEPT !.call = call, !.sent = @ \cup {"POST /run"}]
          IN poll' =
                 IF CallFailed(poll.call, outcome)
                 THEN [p1 EXCEPT !.pc = "returned", !.hard = TRUE,
                                 !.shown = Shown("Submit error", <<>>,
                                                 IF outcome.exc \/ RetryableStatus(outcome.code)
                                                 THEN MsgFailedAfter ELSE MsgHttpError,
                                                 Picked(None, None, None))]
                 ELSE IF call.done
                 THEN [p1 EXCEPT !.pc = "querying", !.remote = [status |-> "IN_QUEUE"]]
                 ELSE p1
    /\ UNCHANGED <<run_vars, validation, download>>

\* the readings time.time() - start can give after the sleep and the call
Readings ==
    LET base == IF poll.started
                THEN Min(MaxElapsed, poll.elapsed + (poll.interval + 29) \div 30)
                ELSE 0
    IN {base, Min(MaxElapsed, base + MaxLatency)}

\* _poll_status_stream: one request of get_status and, when it is answered,
\* the rest of the loop body
StatusAttempt ==
    /\ poll.pc = "querying"
    /\ \E outcome \in HttpOutcomes, reading \in Readings :
          LET before == IF poll.call.done \/ poll.call.name = "submit"
                        THEN NewCall("status") ELSE poll.call
              call == CallAfter(before, outcome)
              p1 == [poll EXCEPT !.call = call, !.sent = @ \cup {"GET /status"}]
          IN poll' =
                 IF CallFailed(before, outcome)
                 THEN [p1 EXCEPT !.pc = "returned", !.hard = TRUE,
                                 !.shown = RenderError(<<"Status", "error">> \o
                                              (IF outcome.exc \/ RetryableStatus(outcome.code)
                                               THEN MsgFailedAfter ELSE MsgHttpError))]
                 ELSE IF ~call.done THEN p1
                 ELSE LET p2 == [p1 EXCEPT !.started = TRUE,
                                           !.elapsed = reading,
                                           !.interval = PollInterval(reading),
                                           !.last = poll.remote]
                      IN IF Upper(poll.remote.status) \in TerminalStatuses
                         THEN [p2 EXCEPT !.pc = "returned",
                                         !.shown = RenderTerminal(poll.remote)]
                         ELSE p2
    /\ UNCHANGED <<run_vars, validation, download>>

\* the remote job moves on: queued, running, ended
RemoteAdvance ==
    /\ poll.pc = "querying"
    /\ \/ /\ poll.remote.status = "IN_QUEUE"
          /\ poll' = [poll EXCEPT !.remote = [status |-> "IN_PROGRESS"]]
       \/ /\ poll.remote.status = "IN_PROGRESS"
          /\ \E r \in TerminalResponses : poll' = [poll EXCEPT !.remote = r]
    /\ UNCHANGED <<run_vars, validation, download>>

\* _cancel: the "Cancel Polling" button
Cancel ==
    /\ poll.pc = "querying"
    /\ ~poll.cancel
    /\ poll' = [poll EXCEPT !.cancel = TRUE,
                            !.shown.status_text = "Polling cancelled by user."]
    /\ UNCHANGED <<run_vars, validation, download>>

NextPoll ==
    \/ SubmitAttempt
    \/ StatusAttempt
    \/ RemoteAdvance
    \/ Cancel

SpecPoll == InitPoll /\ [][NextPoll]_vars

\* the client's own steps are taken as long as they can be: submit and the
\* polling loop are sequential code whose sleeps are finite
SpecPollClient == SpecPoll /\ WF_vars(SubmitAttempt) /\ WF_vars(StatusAttempt)

\* and the remote job does not stay queued or running forever
SpecPollLive == SpecPollClient /\ WF_vars(RemoteAdvance)

\* the polling loop is running / has returned
Polling == poll.pc = "querying"
PollReturned == poll.pc = "returned"

\* the loop went on only after non-terminal responses, and a return that is
\* not a failure of the status call follows a terminal response
C22_ReturnsAtFirstTerminal ==
    /\ (Polling /\ poll.started) => poll.last.status \in {"IN_QUEUE", "IN_PROGRESS"}
    /\ (PollReturned /\ ~poll.hard) =>
           Upper(poll.last.status) \in {"COMPLETED", "FAILED", "TIMEOUT"}

\* C22: the polling loop keeps querying while the reported status is not
\* terminal (IN_QUEUE, IN_PROGRESS) and returns at the first response whose
\* status is COMPLETED, FAILED or TIMEOUT; if the remote job eventually
\* reports a terminal status, the poll eventually returns.
C22_PollUntilTerminal == [](C22_ReturnsAtFirstTerminal) /\ (Polling ~> PollReturned)

C22_Witness ==
    /\ PollReturned /\ ~poll.hard
    /\ poll.last.status = "TIMEOUT"
    /\ poll.elapsed > 60
    /\ poll.interval > POLL_INIT_30THS

\* the interval of an iteration, in thirtieths of a second, against the clock
\* reading of that iteration, in seconds: 2 s is 60, 6 s is 180
C23_IntervalOfReading ==
    (poll.pc # "idle" /\ poll.started) =>
        /\ 60 <= poll.interval /\ poll.interval <= 180
        /\ poll.elapsed >= 120 => poll.interval = 180
        /\ poll.elapsed < 120 => poll.interval * 120 = 60 * 120 + poll.elapsed * (180 - 60)

C23_IntervalGrows ==
    (poll.pc # "idle" /\ poll'.elapsed >= poll.elapsed) => poll'.interval >= poll.interval

RetrySleeps == <<8, 16, 32, 64, 80>>

\* the latest request of the call got a 429, a 5xx or a transport exception
GotRetryable(call) ==
    call.outcome.exc \/ call.outcome.code = 429 \/ call.outcome.code \in 500..599

\* the messages the client surfaces for a job that ended in an error
JobErrorMessages == {RenderTerminal(r).err : r \in TerminalResponses}

\* C24: a submit or status call that gets a 429 or 5xx response or a
\* transport exception is retried with exponentially growing sleep (0.8 s
\* doubling, capped at 8 s); at most 5 HTTP requests are issued per call; any
\* other response is returned after a single request; and when all attempts
\* are exhausted the call ends in a hard failure that is distinct from a
\* job-level error result.
C24_RetryWithBackoff ==
    (poll.pc # "idle" /\ poll.call.requests > 0) =>
        LET call == poll.call
        IN /\ call.requests <= 5
           /\ Len(call.slept) <= call.requests
           /\ \A k \in 1..Len(call.slept) : call.slept[k] = RetrySleeps[k]
           /\ IF GotRetryable(call)
              THEN /\ Len(call.slept) = call.requests
                   /\ call.requests < 5 => (~call.done /\ ~PollReturned)
                   /\ call.requests = 5 =>
                          /\ PollReturned /\ poll.hard
                          /\ DOMAIN poll.shown.output = {}
                          /\ poll.shown.status_text \in {"Submit error", "Error"}
                          /\ poll.shown.err \notin JobErrorMessages
                          /\ call.name = "status" =>
                                 SubSeq(poll.shown.err, 1, 2) = <<"Status", "error">>
              ELSE /\ call.done
                   /\ Len(call.slept) = call.requests - 1

C24_Witness ==
    /\ PollReturned /\ poll.hard
    /\ poll.call.name = "status"
    /\ poll.call.requests = 5
    /\ poll.call.slept = <<8, 16, 32, 64, 80>>
    /\ poll.call.outcome.code = 429
    /\ poll.started

\* the loop returned on a response of the remote job with this status
ReturnedOn(statuses) == PollReturned /\ ~poll.hard /\ Upper(poll.last.status) \in statuses

LastOutput == Get(poll.last, "output", <<>>)

StructuredError ==
    /\ "error" \in DOMAIN LastOutput
    /\ "code" \in DOMAIN LastOutput["error"]
    /\ "message" \in DOMAIN LastOutput["error"]

\* C26: for a FAILED (or TIMEOUT) status whose output carries a structured
\* error {code, message}, the message surfaced by the polling client contains
\* that error code and the error message, and no result payload is returned.
C26_ErrorCodeSurfaced ==
    (ReturnedOn({"FAILED", "TIMEOUT"}) /\ StructuredError) =>
        /\ Contains(<<LastOutput["error"]["code"]>>, poll.shown.err)
        /\ Contains(LastOutput["error"]["message"], poll.shown.err)
        /\ DOMAIN poll.shown.output = {}
        /\ poll.shown.picked = Picked(None, None, None)

C26_Witness ==
    /\ ReturnedOn({"FAILED"})
    /\ StructuredError
    /\ LastOutput["error"]["code"] = "E_OOM"
    /\ Contains(<<"E_OOM">>, poll.shown.err)
    /\ poll.shown.status_text = "Error"

\* C27: after the caller requests cancellation while a polling loop for a job
\* is running, that loop stops observing (eventually it issues no further
\* status queries), and at no point does the client send a request that
\* aborts the remote job.
C27_CancelStopsPolling ==
    /\ [](poll.pc # "idle" => poll.sent \subseteq {"POST /run", "GET /status"})
    /\ ((Polling /\ poll.cancel) ~> ~Polling)

\* C34: for a FAILED or TIMEOUT status whose response carries no structured
\* error (output absent, empty, or without an error field), the message
\* surfaced by the polling client is the generic "Job ended with status=<S>"
\* message with <S> the terminal status.
C34_GenericMessage ==
    (ReturnedOn({"FAILED", "TIMEOUT"}) /\ "error" \notin DOMAIN LastOutput) =>
        poll.shown.err = MsgJobEnded(Upper(poll.last.status))

\* the urls of the video artifacts of an output
ArtifactUrls(output) ==
    LET arts == Get(output, "artifacts", <<>>)
    IN {arts[k]["url"] : k \in {j \in 1..Len(arts) : /\ Get(arts[j], "type", None) = "video"
                                                     /\ Truthy(Get(arts[j], "url", None))}}

\* C35: when a COMPLETED output has no top-level video url and its artifacts
\* list contains video artifacts, the extracted primary locator is a remote
\* url whenever any video artifact in the list carries a url, in preference
\* to any inline base64 payload in the list; inline bytes are returned only
\* if no video artifact carries a url.
C35_ArtifactUrlPreferred ==
    (/\ ReturnedOn({"COMPLETED"})
     /\ ~Truthy(Get(Get(LastOutput, "video", <<>>), "url", None))) =>
        IF ArtifactUrls(LastOutput) # {}
        THEN /\ poll.shown.picked.url \in ArtifactUrls(LastOutput)
             /\ poll.shown.picked.raw = None
        ELSE poll.shown.picked.url = None

\* C40: when the polled status is COMPLETED but the embedded output is the
\* worker's Error envelope (status "error"), the polling client surfaces the
\* job as failed with the embedded error code and message; it never reports
\* such a job as completed.
C40_ErrorEnvelopeIsFailure ==
    (ReturnedOn({"COMPLETED"}) /\ Get(LastOutput, "status", "") = "error") =>
        /\ poll.shown.status_text = "Error"
        /\ Contains(<<LastOutput["error"]["code"]>>, poll.shown.err)
        /\ Contains(LastOutput["error"]["message"], poll.shown.err)

====
